---- MODULE Spec2Model ----
(***************************************************************************)
(* A model of the youtube-subtitles read path (api.js), its command line   *)
(* readers and the queue reconciler (queue-status.js).                     *)
(*                                                                         *)
(* Conventions                                                             *)
(*   - a JavaScript string whose characters matter is a sequence of        *)
(*     one-character strings, so that toLowerCase, includes, parseInt and  *)
(*     the regular expressions are computed and not assumed;               *)
(*   - an optional value (undefined / null / NaN versus a value) is a set  *)
(*     with at most one element: {} is the absent value, {v} is v;         *)
(*   - the store (master index, shard files, urls.txt, api/video) is       *)
(*     chosen by Init and is not changed by any reader.                    *)
(***************************************************************************)
EXTENDS Integers, Sequences, FiniteSets, TLC

VARIABLES
    master,     \* data/index/master.json
    files,      \* the shard files: path -> [state, lines]
    apiVideo,   \* the ids that have a file api/video/{id}.json
    urlsTxt,    \* urls.txt: [exists, lines]
    request,    \* the call being served ("idle" when none)
    response,   \* what the caller of the last call got
    idAccess,   \* storage accesses the call made with the id it was given
    pc,         \* position inside getRandomVideos
    randomIds,  \* getRandomVideos: const randomIds = []
    used,       \* getRandomVideos: const used = new Set()
    srtArgs,    \* the arguments formatTime and generateSRT are applied to
    srtOut,     \* what they returned
    apiFiles,   \* api/: stats.json, queue.json, manifest.json, search/*.json
    videoDir,   \* api/video/: file name -> content
    gen,        \* the generator run: program, position, pending writes, log
    unwritable, \* the paths fs.writeFile fails on
    prevApi,    \* api/ as it was when the current run started
    randomIndex, \* getRandomVideos: const randomIndex of the last turn of the loop
    writer,     \* put(record): the writers, the lock, the names of the shard files
    client      \* scripts/youtube-api.js: the query of searchVideos and what it gave

viewVars == <<srtArgs, srtOut, apiFiles, videoDir, gen, unwritable, prevApi>>

otherVars == <<randomIndex, writer, client>>

vars == <<master, files, apiVideo, urlsTxt, request, response, idAccess, pc, randomIds, used, viewVars,
          otherVars>>

storeVars == <<master, files, apiVideo, urlsTxt>>

(***************************************************************************)
(* Bounds of the model                                                     *)
(***************************************************************************)
MaxLines == 3

MaxShards == 2

MaxGarbage == 1

MaxLimit == 3

MaxOffset == 2

MaxCount == 3

MaxQueue == 3

\* the number of segments of a track given to generateSRT
MaxSegments == 2

\* the number of lines of the store a generator run reads
MaxGenLines == 2

\* the number of generator runs in a row
MaxRuns == 2

\* the capacity threshold of a shard (records)
Threshold == 2

\* the number of puts that are started
MaxPuts == 3

(***************************************************************************)
(* Program constants                                                       *)
(***************************************************************************)
DefaultLimit == 50

DefaultOffset == 0

DefaultCount == 10

IdLength == 11

(***************************************************************************)
(* Characters and strings                                                  *)
(***************************************************************************)
Upper == <<"A","B","C","D","E","F","G","H","I","J","K","L","M",
           "N","O","P","Q","R","S","T","U","V","W","X","Y","Z">>

Lower == <<"a","b","c","d","e","f","g","h","i","j","k","l","m",
           "n","o","p","q","r","s","t","u","v","w","x","y","z">>

DigitChars == <<"0","1","2","3","4","5","6","7","8","9">>

Range(s) == {s[i] : i \in DOMAIN s}

\* the class [a-zA-Z0-9_-]
IdChars == Range(Upper) \cup Range(Lower) \cup Range(DigitChars) \cup {"_", "-"}

\* String.prototype.trim removes these from both ends
WhiteSpace == {" ", "\t", "\r", "\n"}

toLowerChar(c) ==
    IF \E i \in 1..26 : Upper[i] = c
    THEN Lower[CHOOSE i \in 1..26 : Upper[i] = c]
    ELSE c

toLowerCase(s) == [i \in 1..Len(s) |-> toLowerChar(s[i])]

includes(s, t) == \E i \in 0..(Len(s) - Len(t)) : SubSeq(s, i + 1, i + Len(t)) = t

\* line.trim() is truthy iff some character is not white space
trimIsTruthy(s) == \E i \in 1..Len(s) : s[i] \notin WhiteSpace

DigitValue(c) == (CHOOSE i \in 1..10 : DigitChars[i] = c) - 1

RECURSIVE ParseDigits(_, _)
ParseDigits(s, acc) ==
    IF s = <<>> \/ Head(s) \notin Range(DigitChars)
    THEN acc
    ELSE ParseDigits(Tail(s), 10 * acc + DigitValue(Head(s)))

RECURSIVE SkipSpace(_)
SkipSpace(s) == IF s # <<>> /\ Head(s) \in WhiteSpace THEN SkipSpace(Tail(s)) ELSE s

\* parseInt of a string of the model: a sign and the leading decimal digits,
\* NaN ({}) when there are none
parseIntStr(s) ==
    LET t      == SkipSpace(s)
        signed == t # <<>> /\ Head(t) \in {"-", "+"}
        u      == IF signed THEN Tail(t) ELSE t
    IN  IF u = <<>> \/ Head(u) \notin Range(DigitChars) THEN {}
        ELSE IF Head(t) = "-" THEN {0 - ParseDigits(u, 0)} ELSE {ParseDigits(u, 0)}

\* the decimal digits of a small natural number, as a query string carries it
RECURSIVE ToDigits(_)
ToDigits(n) ==
    IF n < 10 THEN <<DigitChars[n + 1]>> ELSE Append(ToDigits(n \div 10), DigitChars[(n % 10) + 1])

(***************************************************************************)
(* JavaScript numbers that may be NaN / null: sets with at most one        *)
(* integer.  Every comparison with the absent value is false.              *)
(***************************************************************************)
JsGE(a, b) == \E x \in a, y \in b : x >= y

JsLT(a, b) == \E x \in a, y \in b : x < y

JsGT(a, b) == \E x \in a, y \in b : x > y

\* truthiness of a number or null: not NaN, not null, not 0
NumTruthy(a) == \E x \in a : x # 0

\* truthiness of an optional string: present and not empty
StrTruthy(a) == \E x \in a : x # <<>>

(***************************************************************************)
(* Video ids                                                               *)
(***************************************************************************)
IdA == <<"d","Q","w","4","w","9","W","g","X","c","Q">>

IdB == <<"9","b","Z","k","p","7","q","1","9","f","0">>

IdC == <<"a","_","c","-","e","f","g","h","i","j","k">>

\* a well-formed id that no record has
IdNone == <<"z","z","z","z","z","z","z","z","z","z","z">>

\* malformed: too short, and 11 characters that leave the data directory
IdShort == <<"a","b","c">>

IdTraversal == <<".",".","/",".",".","/","e","t","c","/","x">>

\* /^[a-zA-Z0-9_-]{11}$/.test(id) with the length taken from an argument
matchesIdPattern(id, len) == Len(id) = len /\ \A i \in 1..Len(id) : id[i] \in IdChars

isValidVideoId(id) == matchesIdPattern(id, IdLength)

(***************************************************************************)
(* Records                                                                 *)
(***************************************************************************)
VideoA ==
    [id |-> IdA, title |-> {<<"R","i","c","k">>}, author |-> {<<"A","l">>},
     duration |-> 0, view_count |-> 5,
     captions |-> {[lang |-> "en", auto |-> FALSE,
                    segments |-> <<[s |-> 0, e |-> 3000, t |-> "We're no strangers to love"],
                                   [s |-> 3000, e |-> 6000, t |-> "You know the rules and so do I"] >>]}]

VideoB ==
    [id |-> IdB, title |-> {<<"r","o","c","k">>}, author |-> {},
     duration |-> 3, view_count |-> 0,
     captions |-> {}]

VideoC ==
    [id |-> IdC, title |-> {<<"U","p">>}, author |-> {<<"R","i","c","k">>},
     duration |-> 1, view_count |-> 2,
     captions |-> {[lang |-> "de", auto |-> TRUE,
                    segments |-> <<[s |-> 500, e |-> 61001, t |-> "Hallo"] >>]}]

VideoPool == {VideoA, VideoB, VideoC}

\* one line of a decompressed shard
RecordLine(v) == [kind |-> "record", rec |-> {v}]

GarbageLine == [kind |-> "garbage", rec |-> {}]

BlankLine == [kind |-> "blank", rec |-> {}]

LinePool == {RecordLine(v) : v \in VideoPool} \cup {GarbageLine}

(***************************************************************************)
(* The store                                                               *)
(***************************************************************************)
\* index.shards is iterated with Object.entries: the keys in insertion
\* order.  The k-th key is ShardPath(k).
ShardPath(k) == k

LineRecords(lines) ==
    LET recs == SelectSeq(lines, LAMBDA l : l.kind = "record")
    IN  [i \in 1..Len(recs) |-> CHOOSE v \in recs[i].rec : TRUE]

Ids(videos) == [i \in 1..Len(videos) |-> videos[i].id]

NoDuplicates(s) == \A i, j \in 1..Len(s) : s[i] = s[j] => i = j

\* the lines of all shards, in index order: every record at most once, a
\* bounded number of lines that do not parse
Flats ==
    {f \in UNION {[1..n -> LinePool] : n \in 0..MaxLines} :
        /\ NoDuplicates(Ids(LineRecords(f)))
        /\ Cardinality({i \in 1..Len(f) : f[i].kind = "garbage"}) <= MaxGarbage}

\* where one shard ends and the next begins: a cut x is a boundary after line x
Cuts(n) == {c \in SUBSET (1..(n - 1)) : Cardinality(c) <= MaxShards - 1}

ShardCount(f, c) == IF f = <<>> THEN 0 ELSE Cardinality(c) + 1

Chunk(f, c, k) ==
    LET idx == {i \in 1..Len(f) : 1 + Cardinality({x \in c : x < i}) = k}
        lo  == CHOOSE i \in idx : \A j \in idx : i <= j
        hi  == CHOOSE i \in idx : \A j \in idx : j <= i
    IN  SubSeq(f, lo, hi)

\* a shard file ends with a newline, so split('\n') yields a last empty line
ShardFile(lines) == [state |-> "ok", lines |-> Append(lines, BlankLine)]

\* the master index over the shards f cut at c.  When st is not "ok" the file
\* is missing or does not parse: the fields then say what the index would
\* hold, and no reader gets to see them (MasterLoads is tested first).
MasterOf(f, c, st) ==
    [state     |-> st,
     total     |-> Len(LineRecords(f)),
     shards    |-> [k \in 1..ShardCount(f, c) |->
                       [path |-> ShardPath(k), ids |-> Ids(LineRecords(Chunk(f, c, k)))]],
     processed |-> Ids(LineRecords(f)),
     updated   |-> "t0"]

\* every record of every shard file, read line by line (what the store holds)
RECURSIVE FlattenFrom(_, _)
FlattenFrom(fs, k) ==
    IF k > Len(fs) THEN <<>> ELSE LineRecords(fs[k].lines) \o FlattenFrom(fs, k + 1)

StoreRecords == FlattenFrom(files, 1)

NoCorruptLine == \A k \in DOMAIN files : \A i \in DOMAIN files[k].lines : files[k].lines[i].kind # "garbage"

(***************************************************************************)
(* Requests and responses                                                  *)
(***************************************************************************)
Idle ==
    [op |-> "idle", q |-> {}, limit |-> {}, offset |-> {}, author |-> {},
     min_views |-> {}, max_duration |-> {}, count |-> {}, id |-> {}, lang |-> {}]

NoResponse ==
    [status |-> 0, error |-> "", videos |-> <<>>, total |-> {}, limit |-> {},
     offset |-> {}, body |-> {}]

Reply(st) == [NoResponse EXCEPT !.status = st]

Fail(st, msg) == [NoResponse EXCEPT !.status = st, !.error = msg]

\* JSON.parse(await fs.readFile('data/index/master.json')) throws unless the
\* file is there and parses
MasterLoads == master.state = "ok"

(***************************************************************************)
(* getVideosFromShard (api.js)                                             *)
(***************************************************************************)
\* lines.filter(line => line.trim()).map(line => JSON.parse(line)) inside
\* try { } catch { return [] }
getVideosFromShard(shardPath) ==
    IF shardPath \notin DOMAIN files \/ files[shardPath].state # "ok"
    THEN <<>>
    ELSE LET lines == SelectSeq(files[shardPath].lines, LAMBDA l : l.kind # "blank")
         IN  IF \E i \in 1..Len(lines) : lines[i].kind = "garbage"
             THEN <<>>
             ELSE LineRecords(lines)

(***************************************************************************)
(* listVideos (api.js)                                                     *)
(***************************************************************************)
\* the three   if (...) continue;   filter lines
PassesFilters(video, o) ==
    /\ ~(StrTruthy(o.author) /\ video.author # o.author)
    /\ ~(NumTruthy(o.min_views) /\ JsLT({video.view_count}, o.min_views))
    /\ ~(NumTruthy(o.max_duration) /\ JsGT({video.duration}, o.max_duration))

\* a slip in the offset test: found > offset
ListKeepsOffByOne(found, have, o) == JsGT({found}, o.offset) /\ JsLT({have}, o.limit)

\* if (found >= offset && results.length < limit)
ListKeeps(found, have, o) == JsGE({found}, o.offset) /\ JsLT({have}, o.limit)

RECURSIVE ListScanVideos(_, _, _)
ListScanVideos(videos, o, acc) ==
    IF videos = <<>> THEN acc
    ELSE LET video == Head(videos) IN
         IF ~PassesFilters(video, o)
         THEN ListScanVideos(Tail(videos), o, acc)
         ELSE ListScanVideos(Tail(videos), o,
                  [results |-> IF ListKeeps(acc.found, Len(acc.results), o)
                               THEN Append(acc.results, video)
                               ELSE acc.results,
                   found   |-> acc.found + 1])

\* for (const [shardPath, videoIds] of Object.entries(index.shards)) {
\*   if (results.length >= limit) break; ...
RECURSIVE ListScanShards(_, _, _)
ListScanShards(entries, o, acc) ==
    IF entries = <<>> \/ JsGE({Len(acc.results)}, o.limit) THEN acc
    ELSE ListScanShards(Tail(entries), o,
             ListScanVideos(getVideosFromShard(Head(entries).path), o, acc))

ListTotal(index, acc) == {index.total}

listVideos(o) ==
    IF ~MasterLoads THEN [threw |-> TRUE, videos |-> <<>>, total |-> {}]
    ELSE LET acc == ListScanShards(master.shards, o, [results |-> <<>>, found |-> 0])
         IN  [threw |-> FALSE, videos |-> acc.results, total |-> ListTotal(master, acc)]

(***************************************************************************)
(* Query strings of the HTTP layer                                         *)
(***************************************************************************)
\* const { limit = 50 } = request.query;  parseInt(limit)
QueryInt(param, default) ==
    IF param = {} THEN {default} ELSE parseIntStr(CHOOSE x \in param : TRUE)

\* min_views ? parseInt(min_views) : null
QueryIntOrNull(param) ==
    IF StrTruthy(param) THEN parseIntStr(CHOOSE x \in param : TRUE) ELSE {}

LimitParams == {{}} \cup {{ToDigits(n)} : n \in 0..MaxLimit}

OffsetParams == {{}} \cup {{ToDigits(n)} : n \in 0..MaxOffset}

AuthorAl == <<"A","l">>

\* the filters tried: none, each one alone (with the bound 0 and a positive
\* bound), and all three together
ListFilters ==
    {[author |-> {}, min_views |-> {}, max_duration |-> {}],
     [author |-> {AuthorAl}, min_views |-> {}, max_duration |-> {}],
     [author |-> {}, min_views |-> {ToDigits(0)}, max_duration |-> {}],
     [author |-> {}, min_views |-> {ToDigits(2)}, max_duration |-> {}],
     [author |-> {}, min_views |-> {}, max_duration |-> {ToDigits(0)}],
     [author |-> {}, min_views |-> {}, max_duration |-> {ToDigits(1)}],
     [author |-> {<<"R","i","c","k">>}, min_views |-> {ToDigits(2)}, max_duration |-> {ToDigits(1)}]}

\* the options object the /videos route builds
ListOptions(r) ==
    [limit        |-> QueryInt(r.limit, DefaultLimit),
     offset       |-> QueryInt(r.offset, DefaultOffset),
     author       |-> r.author,
     min_views    |-> QueryIntOrNull(r.min_views),
     max_duration |-> QueryIntOrNull(r.max_duration)]

\* fastify.get('/videos', ...)
VideosHandler(r) ==
    LET results == listVideos(ListOptions(r)) IN
    IF results.threw THEN Fail(500, "Failed to list videos")
    ELSE [Reply(200) EXCEPT !.videos = results.videos,
                            !.total  = results.total,
                            !.limit  = QueryInt(r.limit, DefaultLimit),
                            !.offset = QueryInt(r.offset, DefaultOffset)]

VideosRoute ==
    /\ request.op = "idle"
    /\ \E l \in LimitParams, o \in OffsetParams, f \in ListFilters :
         /\ request' = [Idle EXCEPT !.op = "videos", !.limit = l, !.offset = o,
                                    !.author = f.author, !.min_views = f.min_views,
                                    !.max_duration = f.max_duration]
         /\ response' = VideosHandler(request')
    /\ idAccess' = {}
    /\ UNCHANGED <<storeVars, pc, randomIds, used, viewVars, otherVars>>

(***************************************************************************)
(* searchVideos (api.js)                                                   *)
(***************************************************************************)
JsAdd(a, b) == {x + y : x \in a, y \in b}

\* video.title?.toLowerCase().includes(searchTerm) ||
\* video.author?.toLowerCase().includes(searchTerm)
SearchMatches(video, searchTerm) ==
    \/ \E t \in video.title : includes(toLowerCase(t), searchTerm)
    \/ \E a \in video.author : includes(toLowerCase(a), searchTerm)

\* if (checked < offset) { checked++; continue; }
SearchSkips(checked, offset) == JsLT({checked}, offset)

\* if (found >= offset && results.length < limit)
SearchKeeps(found, have, limit, offset) == JsGE({found}, offset) /\ JsLT({have}, limit)

\* if (found >= offset + limit) break;
SearchBreaks(found, limit, offset) == JsGE({found}, JsAdd(offset, limit))

RECURSIVE SearchScanVideos(_, _, _, _, _)
SearchScanVideos(videos, searchTerm, limit, offset, acc) ==
    IF videos = <<>> THEN acc
    ELSE LET video == Head(videos) IN
         IF SearchSkips(acc.checked, offset)
         THEN SearchScanVideos(Tail(videos), searchTerm, limit, offset,
                  [acc EXCEPT !.checked = acc.checked + 1])
         ELSE IF SearchMatches(video, searchTerm)
         THEN SearchScanVideos(Tail(videos), searchTerm, limit, offset,
                  [results |-> IF SearchKeeps(acc.found, Len(acc.results), limit, offset)
                               THEN Append(acc.results, video)
                               ELSE acc.results,
                   found   |-> acc.found + 1,
                   checked |-> acc.checked + 1])
         ELSE SearchScanVideos(Tail(videos), searchTerm, limit, offset,
                  [acc EXCEPT !.checked = acc.checked + 1])

RECURSIVE SearchScanShards(_, _, _, _, _)
SearchScanShards(entries, searchTerm, limit, offset, acc) ==
    IF entries = <<>> \/ SearchBreaks(acc.found, limit, offset) THEN acc
    ELSE SearchScanShards(Tail(entries), searchTerm, limit, offset,
             SearchScanVideos(getVideosFromShard(Head(entries).path),
                              searchTerm, limit, offset, acc))

searchVideos(query, limit, offset) ==
    IF ~MasterLoads THEN [threw |-> TRUE, videos |-> <<>>, total |-> {}]
    ELSE LET acc == SearchScanShards(master.shards, toLowerCase(query), limit, offset,
                                     [results |-> <<>>, found |-> 0, checked |-> 0])
         IN  [threw |-> FALSE, videos |-> acc.results, total |-> {acc.found}]

\* the q values tried: absent, and three queries (lower case, upper case, no match)
Queries == {{}, {<<"r">>}, {<<"R","I">>}, {<<"x">>}}

\* fastify.get('/search', ...)
SearchHandler(r) ==
    IF ~StrTruthy(r.q) THEN Fail(400, "Query parameter q is required")
    ELSE LET results == searchVideos(CHOOSE x \in r.q : TRUE,
                                     QueryInt(r.limit, DefaultLimit),
                                     QueryInt(r.offset, DefaultOffset)) IN
         IF results.threw THEN Fail(500, "Search failed")
         ELSE [Reply(200) EXCEPT !.videos = results.videos,
                                 !.total  = results.total,
                                 !.limit  = QueryInt(r.limit, DefaultLimit),
                                 !.offset = QueryInt(r.offset, DefaultOffset)]

SearchRoute ==
    /\ request.op = "idle"
    /\ \E q \in Queries, l \in LimitParams, o \in OffsetParams :
         /\ request' = [Idle EXCEPT !.op = "search", !.q = q, !.limit = l, !.offset = o]
         /\ response' = SearchHandler(request')
    /\ idAccess' = {}
    /\ UNCHANGED <<storeVars, pc, randomIds, used, viewVars, otherVars>>

(***************************************************************************)
(* fastify.get('/stats', ...)                                              *)
(***************************************************************************)
StatsHandler ==
    IF ~MasterLoads THEN Fail(404, "Database not found")
    ELSE [Reply(200) EXCEPT !.total = {master.total},
                            !.body  = {[shards |-> Len(master.shards),
                                        last_updated |-> master.updated]}]

StatsRoute ==
    /\ request.op = "idle"
    /\ request' = [Idle EXCEPT !.op = "stats"]
    /\ response' = StatsHandler
    /\ idAccess' = {}
    /\ UNCHANGED <<storeVars, pc, randomIds, used, viewVars, otherVars>>

(***************************************************************************)
(* ShardReader.getVideo / exportVideoData (scraper.js, not among the       *)
(* sources): get(id) of the specification, sections 4.2 and 6              *)
(***************************************************************************)
\* an id of any other shape is rejected before storage is touched; otherwise
\* the shard of the id is read and scanned for the id
getVideo(id) ==
    IF ~isValidVideoId(id)
    THEN [video |-> {}, access |-> {}]
    ELSE [video  |-> {v \in Range(StoreRecords) : v.id = id},
          access |-> {[op |-> "readShard", dir |-> "data/shards", name |-> id]}]

exportVideoData(id) == getVideo(id)

(***************************************************************************)
(* getRandomVideos (api.js)                                                *)
(***************************************************************************)
\* while (randomIds.length < count && randomIds.length < allVideoIds.length)
RandomContinues(have, count, allVideoIds) ==
    JsLT({have}, count) /\ have < Len(allVideoIds)

\* a slip in the draw: the used set is not consulted
RandomAcceptsAlways(videoId, usedIds) == TRUE

\* if (!used.has(videoId))
RandomAccepts(videoId, usedIds) == videoId \notin usedIds

\* for (const id of randomIds) { const video = await this.reader.getVideo(id);
\*   if (video) videos.push(video); }
RECURSIVE ResolveIds(_)
ResolveIds(ids) ==
    IF ids = <<>> THEN <<>>
    ELSE LET video == getVideo(Head(ids)).video IN
         (IF video = {} THEN <<>> ELSE <<CHOOSE v \in video : TRUE>>) \o ResolveIds(Tail(ids))

CountParams == {{}} \cup {{ToDigits(n)} : n \in 0..MaxCount}

\* and a count that is not one: a negative number, not a number
AnyCountParams == CountParams \cup {{<<"-","1">>}, {<<"a","b","c">>}}

ReqCount == QueryInt(request.count, DefaultCount)

\* fastify.get('/random', ...) up to the first turn of the loop
RandomRouteOf(counts) ==
    /\ request.op = "idle"
    /\ \E c \in counts : request' = [Idle EXCEPT !.op = "random", !.count = c]
    /\ IF MasterLoads
       THEN pc' = "loop" /\ response' = NoResponse
       ELSE pc' = "idle" /\ response' = Fail(500, "Failed to get random videos")
    /\ randomIds' = <<>>
    /\ used' = {}
    /\ idAccess' = {}
    /\ UNCHANGED <<storeVars, viewVars, otherVars>>

RandomRoute == RandomRouteOf(CountParams)

RandomRouteAnyCount == RandomRouteOf(AnyCountParams)

\* one turn of the loop: Math.floor(Math.random() * allVideoIds.length)
RandomDraw ==
    /\ pc = "loop"
    /\ RandomContinues(Len(randomIds), ReqCount, master.processed)
    /\ \E drawn \in 0..(Len(master.processed) - 1) :
         LET videoId == master.processed[drawn + 1] IN
         /\ randomIndex' = drawn
         /\ IF RandomAccepts(videoId, used)
            THEN used' = used \cup {videoId} /\ randomIds' = Append(randomIds, videoId)
            ELSE UNCHANGED <<used, randomIds>>
    /\ UNCHANGED <<storeVars, request, response, idAccess, pc, viewVars, writer, client>>

\* the loop has ended: resolve the ids and reply { videos, count }
RandomResolve ==
    /\ pc = "loop"
    /\ ~RandomContinues(Len(randomIds), ReqCount, master.processed)
    /\ LET videos == ResolveIds(randomIds) IN
       response' = [Reply(200) EXCEPT !.videos = videos, !.total = {Len(videos)}]
    /\ pc' = "idle"
    /\ randomIds' = <<>>
    /\ used' = {}
    /\ UNCHANGED <<storeVars, request, idAccess, viewVars, otherVars>>

(***************************************************************************)
(* The /video/:id routes (api.js)                                          *)
(***************************************************************************)
RouteIds == {IdA, IdC, IdNone, IdShort, IdTraversal}

\* const { captions, ...metadata } = video
Metadata(video) ==
    [id |-> video.id, title |-> video.title, author |-> video.author,
     duration |-> video.duration, view_count |-> video.view_count]

VideoBody(kind, video, lang) ==
    IF kind = "video" THEN [Reply(200) EXCEPT !.body = {video}]
    ELSE IF kind = "metadata" THEN [Reply(200) EXCEPT !.body = {Metadata(video)}]
    ELSE IF lang # {} /\ lang # {""}
         THEN IF \E c \in video.captions : {c.lang} = lang
              THEN [Reply(200) EXCEPT !.body = {c \in video.captions : {c.lang} = lang}]
              ELSE Fail(404, "Captions not found for language")
         ELSE [Reply(200) EXCEPT !.body = video.captions]

\* fastify.get('/video/:id'), '/video/:id/metadata', '/video/:id/captions'
VideoHandler(r) ==
    LET id == CHOOSE x \in r.id : TRUE IN
    IF ~isValidVideoId(id)
    THEN [reply |-> Fail(400, "Invalid video ID format"), access |-> {}]
    ELSE LET got == getVideo(id) IN
         IF got.video = {}
         THEN [reply |-> Fail(404, "Video not found"), access |-> got.access]
         ELSE [reply  |-> VideoBody(r.op, CHOOSE v \in got.video : TRUE, r.lang),
               access |-> got.access]

VideoRoute ==
    /\ request.op = "idle"
    /\ \E id \in RouteIds, kind \in {"video", "metadata", "captions"}, lang \in {{}, {"en"}, {"fr"}} :
         /\ kind # "captions" => lang = {}
         /\ request' = [Idle EXCEPT !.op = kind, !.id = {id}, !.lang = lang]
         /\ response' = VideoHandler(request').reply
         /\ idAccess' = VideoHandler(request').access
    /\ UNCHANGED <<storeVars, pc, randomIds, used, viewVars, otherVars>>

(***************************************************************************)
(* The command line readers                                                *)
(***************************************************************************)
\* reader.js over the shards: case 'get'
CliGet ==
    /\ request.op = "idle"
    /\ \E videoId \in RouteIds :
         /\ request' = [Idle EXCEPT !.op = "cli get", !.id = {videoId}]
         /\ response' = [Reply(200) EXCEPT !.body = getVideo(videoId).video]
         /\ idAccess' = getVideo(videoId).access
    /\ UNCHANGED <<storeVars, pc, randomIds, used, viewVars, otherVars>>

\* reader.js over the shards: case 'export'
CliExport ==
    /\ request.op = "idle"
    /\ \E videoId \in RouteIds :
         /\ request' = [Idle EXCEPT !.op = "cli export", !.id = {videoId}]
         /\ response' = [Reply(200) EXCEPT !.body = exportVideoData(videoId).video]
         /\ idAccess' = exportVideoData(videoId).access
    /\ UNCHANGED <<storeVars, pc, randomIds, used, viewVars, otherVars>>

DotJson == <<".","j","s","o","n">>

\* path.join('api', 'video', `${videoId}.json`)
videoPath(videoId) == [op |-> "readFile", dir |-> "api/video", name |-> videoId \o DotJson]

\* JSON.parse(await fs.readFile(videoPath)) succeeds when the file is there
StaticVideo(videoId) == {v \in Range(StoreRecords) : v.id = videoId /\ videoId \in apiVideo}

\* reader.js over the static files: case 'get'
StaticCliGet ==
    /\ request.op = "idle"
    /\ \E videoId \in RouteIds :
         /\ request' = [Idle EXCEPT !.op = "static get", !.id = {videoId}]
         /\ response' = IF StaticVideo(videoId) = {}
                        THEN Fail(1, "Video not found")
                        ELSE [Reply(200) EXCEPT !.body = StaticVideo(videoId)]
         /\ idAccess' = {videoPath(videoId)}
    /\ UNCHANGED <<storeVars, pc, randomIds, used, viewVars, otherVars>>

\* reader.js over the static files: case 'export'
StaticCliExport ==
    /\ request.op = "idle"
    /\ \E videoId \in RouteIds :
         /\ request' = [Idle EXCEPT !.op = "static export", !.id = {videoId}]
         /\ IF StaticVideo(videoId) = {}
            THEN /\ response' = Fail(1, "Failed to export")
                 /\ idAccess' = {videoPath(videoId)}
            ELSE /\ response' = [Reply(200) EXCEPT !.body = StaticVideo(videoId)]
                 /\ idAccess' = {videoPath(videoId),
                                 [op |-> "mkdir", dir |-> "exports", name |-> videoId],
                                 [op |-> "copyFile", dir |-> "exports", name |-> videoId \o DotJson]}
    /\ UNCHANGED <<storeVars, pc, randomIds, used, viewVars, otherVars>>

(***************************************************************************)
(* QueueStatus (queue-status.js)                                           *)
(***************************************************************************)
Https == <<"h","t","t","p","s",":","/","/">>

Www == <<"w","w","w",".">>

WatchPrefix == <<"y","o","u","t","u","b","e",".","c","o","m","/","w","a","t","c","h","?","v","=">>

ShortPrefix == <<"y","o","u","t","u",".","b","e","/">>

EmbedPrefix == <<"y","o","u","t","u","b","e",".","c","o","m","/","e","m","b","e","d","/">>

\* (?:youtube\.com\/watch\?v=|youtu\.be\/|youtube\.com\/embed\/) in order
UrlPrefixes == <<WatchPrefix, ShortPrefix, EmbedPrefix>>

\* the characters [^&\n?#] excludes
StopChars == {"&", "\n", "?", "#"}

HasPrefixAt(s, p, i) == i + Len(p) - 1 <= Len(s) /\ SubSeq(s, i, i + Len(p) - 1) = p

\* the last position of the longest run of admitted characters from j on
RECURSIVE RunEnd(_, _)
RunEnd(s, j) ==
    IF j + 1 <= Len(s) /\ s[j + 1] \notin StopChars THEN RunEnd(s, j + 1) ELSE j

\* the alternatives that match at position i together with ([^&\n?#]+)
PrefixesAt(s, i) ==
    {k \in 1..Len(UrlPrefixes) :
        /\ HasPrefixAt(s, UrlPrefixes[k], i)
        /\ i + Len(UrlPrefixes[k]) <= Len(s)
        /\ s[i + Len(UrlPrefixes[k])] \notin StopChars}

\* url.match(patterns[0]): the leftmost match, the first alternative there;
\* {} for no match, {match[1]} otherwise
matchUrlPattern(s) ==
    LET at == {i \in 1..Len(s) : PrefixesAt(s, i) # {}} IN
    IF at = {} THEN {}
    ELSE LET i == CHOOSE x \in at : \A y \in at : x <= y
             k == CHOOSE x \in PrefixesAt(s, i) : \A y \in PrefixesAt(s, i) : x <= y
             j == i + Len(UrlPrefixes[k])
         IN  {SubSeq(s, j, RunEnd(s, j))}

\* url.match(/^([a-zA-Z0-9_-]{11})$/)
matchBarePattern(s) == IF matchesIdPattern(s, IdLength) THEN {s} ELSE {}

\* for (const pattern of patterns) { const match = url.match(pattern);
\*   if (match) return match[1]; } return null;
extractVideoId(url) ==
    IF matchUrlPattern(url) # {} THEN matchUrlPattern(url) ELSE matchBarePattern(url)

\* queuedUrls: the lines of urls.txt with something else than white space,
\* none when the file cannot be read
QueuedUrls == IF urlsTxt.exists THEN SelectSeq(urlsTxt.lines, trimIsTruthy) ELSE <<>>

\* processedVideos: masterIndex.processed, [] when the index does not load
ProcessedVideos == IF MasterLoads THEN master.processed ELSE <<>>

\* queuedUrls.map(url => this.extractVideoId(url)).filter(Boolean)
RECURSIVE QueuedVideoIds(_)
QueuedVideoIds(urls) ==
    IF urls = <<>> THEN <<>>
    ELSE LET id == extractVideoId(Head(urls)) IN
         (IF StrTruthy(id) THEN <<CHOOSE x \in id : TRUE>> ELSE <<>>)
             \o QueuedVideoIds(Tail(urls))

\* queuedVideoIds.filter(id => !processedVideos.includes(id))
PendingUrls(queuedVideoIds, processedVideos) ==
    SelectSeq(queuedVideoIds, LAMBDA id : id \notin Range(processedVideos))

\* a slip: every line of urls.txt is counted as queued, with or without id
getStatusCountsLines ==
    LET queuedVideoIds == QueuedVideoIds(QueuedUrls)
        pendingUrls    == PendingUrls(queuedVideoIds, ProcessedVideos)
    IN  [total_queued       |-> Len(QueuedUrls),
         pending_processing |-> Len(pendingUrls),
         already_processed  |-> Len(QueuedUrls) - Len(pendingUrls),
         total_videos       |-> Len(ProcessedVideos),
         pending_video_ids  |-> pendingUrls]

getStatus ==
    LET queuedVideoIds == QueuedVideoIds(QueuedUrls)
        pendingUrls    == PendingUrls(queuedVideoIds, ProcessedVideos)
    IN  [total_queued       |-> Len(queuedVideoIds),
         pending_processing |-> Len(pendingUrls),
         already_processed  |-> Len(queuedVideoIds) - Len(pendingUrls),
         total_videos       |-> Len(ProcessedVideos),
         pending_video_ids  |-> pendingUrls]

\* queueStatus.getStatus().then(status => console.log(...))
GetStatus ==
    /\ request.op = "idle"
    /\ request' = [Idle EXCEPT !.op = "status"]
    /\ response' = [Reply(200) EXCEPT !.body = {getStatus}]
    /\ idAccess' = {}
    /\ UNCHANGED <<storeVars, pc, randomIds, used, viewVars, otherVars>>

(***************************************************************************)
(* SubRip text (api.js and the static generator)                           *)
(*                                                                         *)
(* A text is a sequence of tokens: one token per character the program     *)
(* itself emits, and one token for the text of a segment.  String(n) of a  *)
(* natural number is ToDigits(n).                                          *)
(***************************************************************************)
RECURSIVE padStart(_, _, _)
padStart(s, targetLength, padString) ==
    IF Len(s) >= targetLength THEN s ELSE padStart(<<padString>> \o s, targetLength, padString)

\* a formatTime that pads the milliseconds to two digits only
formatTimeShortMillis(ms) ==
    LET totalSeconds == ms \div 1000
        hours        == totalSeconds \div 3600
        minutes      == (totalSeconds % 3600) \div 60
        seconds      == totalSeconds % 60
        milliseconds == ms % 1000
    IN  padStart(ToDigits(hours), 2, "0") \o <<":">> \o padStart(ToDigits(minutes), 2, "0") \o <<":">>
          \o padStart(ToDigits(seconds), 2, "0") \o <<",">> \o padStart(ToDigits(milliseconds), 2, "0")

\* YouTubeAPI.formatTime
formatTime(ms) ==
    LET totalSeconds == ms \div 1000
        hours        == totalSeconds \div 3600
        minutes      == (totalSeconds % 3600) \div 60
        seconds      == totalSeconds % 60
        milliseconds == ms % 1000
    IN  padStart(ToDigits(hours), 2, "0") \o <<":">> \o padStart(ToDigits(minutes), 2, "0") \o <<":">>
          \o padStart(ToDigits(seconds), 2, "0") \o <<",">> \o padStart(ToDigits(milliseconds), 3, "0")

\* Array.prototype.join: the parts with the separator between them
RECURSIVE join(_, _)
join(parts, separator) ==
    IF parts = <<>> THEN <<>>
    ELSE IF Len(parts) = 1 THEN parts[1]
    ELSE parts[1] \o separator \o join(Tail(parts), separator)

\* a generateSRT that ends every cue, the last one too, with a blank line
generateSRTTrailingBlank(segments) ==
    join([index \in 1..Len(segments) |->
            ToDigits(index) \o <<"\n">>
              \o formatTime(segments[index].s) \o <<" ", "-", "-", ">", " ">>
              \o formatTime(segments[index].e) \o <<"\n">>
              \o <<segments[index].t>> \o <<"\n", "\n">>],
         <<>>)

\* YouTubeAPI.generateSRT: segments.map((segment, index) => ...).join('\n');
\* the index of map is 0-based, the cue number is index + 1
generateSRT(segments) ==
    join([index \in 1..Len(segments) |->
            ToDigits(index) \o <<"\n">>
              \o formatTime(segments[index].s) \o <<" ", "-", "-", ">", " ">>
              \o formatTime(segments[index].e) \o <<"\n">>
              \o <<segments[index].t>> \o <<"\n">>],
         <<"\n">>)

\* StaticAPIGenerator.formatTime
GeneratorFormatTime(ms) ==
    LET totalSeconds == ms \div 1000
        hours        == totalSeconds \div 3600
        minutes      == (totalSeconds % 3600) \div 60
        seconds      == totalSeconds % 60
        milliseconds == ms % 1000
    IN  padStart(ToDigits(hours), 2, "0") \o <<":">> \o padStart(ToDigits(minutes), 2, "0") \o <<":">>
          \o padStart(ToDigits(seconds), 2, "0") \o <<",">> \o padStart(ToDigits(milliseconds), 3, "0")

\* StaticAPIGenerator.generateSRT
GeneratorGenerateSRT(segments) ==
    join([index \in 1..Len(segments) |->
            ToDigits(index) \o <<"\n">>
              \o GeneratorFormatTime(segments[index].s) \o <<" ", "-", "-", ">", " ">>
              \o GeneratorFormatTime(segments[index].e) \o <<"\n">>
              \o <<segments[index].t>> \o <<"\n">>],
         <<"\n">>)

\* formatTime of the HTTP layer and of the generator applied to a number of
\* milliseconds
FormatTime ==
    /\ srtOut.time = {}
    /\ \E ms \in srtArgs.ms :
         srtOut' = [srtOut EXCEPT !.time = {formatTime(ms)},
                                  !.generatorTime = {GeneratorFormatTime(ms)}]
    /\ UNCHANGED <<storeVars, request, response, idAccess, pc, randomIds, used,
                   srtArgs, apiFiles, videoDir, gen, unwritable, prevApi,
                   otherVars>>

\* const srt = this.generateSRT(video.captions[lang].segments) in the route
\* /video/:id/captions/:lang/srt, and
\* const srt = this.generateSRT(captionData.segments) in generateVideoEndpoints
GenerateSRT ==
    /\ srtOut.http = {}
    /\ \E segments \in srtArgs.segments :
         srtOut' = [srtOut EXCEPT !.http = {generateSRT(segments)},
                                  !.static = {GeneratorGenerateSRT(segments)}]
    /\ UNCHANGED <<storeVars, request, response, idAccess, pc, randomIds, used,
                   srtArgs, apiFiles, videoDir, gen, unwritable, prevApi,
                   otherVars>>

(***************************************************************************)
(* The static generators: records, file names, file contents               *)
(*                                                                         *)
(* What a file holds is [kind, data]: JSON.stringify of a value or a text. *)
(* A write is [root, file, content]: root names a file of api/ outside     *)
(* api/video ("" when the write goes to api/video), file a file of         *)
(* api/video.  An object used as a map ({}) is a function of its keys; the *)
(* empty object is << >>.                                                  *)
(***************************************************************************)
\* a title that repeats a word, with punctuation, two spaces in a row and a
\* word of two letters; no author, no captions
VideoD ==
    [id |-> <<"k","J","Q","P","7","k","i","w","5","F","k">>,
     title |-> {<<"R","i","c","k",","," ","r","i","c","k"," "," ","u","p","!">>},
     author |-> {}, duration |-> 2, view_count |-> 1, captions |-> {}]

\* a title with the word "constructor"
VideoE ==
    [id |-> <<"J","G","w","W","N","G","J","d","v","x","8">>,
     title |-> {<<"T","h","e"," ","C","o","n","s","t","r","u","c","t","o","r">>},
     author |-> {<<"A","l">>}, duration |-> 4, view_count |-> 3, captions |-> {}]

\* an author named as an inherited key of objects, a caption track whose
\* language code is "metadata"
VideoF ==
    [id |-> IdB, title |-> {<<"U","p">>}, author |-> {<<"c","o","n","s","t","r","u","c","t","o","r">>},
     duration |-> 5, view_count |-> 4,
     captions |-> {[lang |-> "metadata", auto |-> TRUE,
                    segments |-> <<[s |-> 0, e |-> 1, t |-> "Hi"] >>]}]

\* the lines of all shards a generator run reads
GenFlats ==
    {f \in UNION {[1..n -> {RecordLine(v) : v \in {VideoA, VideoC, VideoD, VideoE, VideoF}}
                               \cup {GarbageLine}] :
                     n \in 0..MaxGenLines} :
        /\ NoDuplicates(Ids(LineRecords(f)))
        /\ Cardinality({i \in 1..Len(f) : f[i].kind = "garbage"}) <= MaxGarbage}

\* the language codes as they appear in a file name
LangChars(lang) ==
    IF lang = "en" THEN <<"e","n">>
    ELSE IF lang = "de" THEN <<"d","e">>
    ELSE IF lang = "metadata" THEN <<"m","e","t","a","d","a","t","a">>
    ELSE <<"f","r">>

endsWith(s, t) == Len(s) >= Len(t) /\ SubSeq(s, Len(s) - Len(t) + 1, Len(s)) = t

\* the files of api/ outside api/video, none of them there
NoApiFiles ==
    [p \in {"stats.json", "queue.json", "manifest.json",
            "search/index.json", "search/videos.json", "search/authors.json"} |-> {}]

\* what a file holds between the open that truncates it and the last write
Partial == [kind |-> "partial", data |-> <<>>]

\* the ids that have a file api/video/{id}.json
FullFileIds(dir) ==
    {SubSeq(n, 1, IdLength) : n \in {m \in DOMAIN dir : Len(m) = IdLength + Len(DotJson) /\ endsWith(m, DotJson)}}

\* the keys of an object, one after the other
RECURSIVE Entries(_)
Entries(set) ==
    IF set = {} THEN <<>>
    ELSE LET x == CHOOSE y \in set : TRUE IN <<x>> \o Entries(set \ {x})

\* const { captions, ...metadata } = video in generateVideoEndpoints
WithoutCaptions(video) ==
    [id |-> video.id, title |-> video.title, author |-> video.author,
     duration |-> video.duration, view_count |-> video.view_count]

\* for (const [lang, captionData] of Object.entries(video.captions)):
\* the .srt, the .txt (segments.map(s => s.t).join(' ')) and the .json
RECURSIVE CaptionWrites(_, _)
CaptionWrites(id, tracks) ==
    IF tracks = <<>> THEN <<>>
    ELSE LET track == Head(tracks)
             stem  == id \o <<"-">> \o LangChars(track.lang)
         IN  <<[root |-> "", file |-> stem \o <<".","s","r","t">>,
                content |-> [kind |-> "srt", data |-> GeneratorGenerateSRT(track.segments)]],
               [root |-> "", file |-> stem \o <<".","t","x","t">>,
                content |-> [kind |-> "txt",
                             data |-> join([i \in 1..Len(track.segments) |-> <<track.segments[i].t>>],
                                           <<" ">>)]],
               [root |-> "", file |-> stem \o DotJson,
                content |-> [kind |-> "captions",
                             data |-> [auto |-> track.auto, segments |-> track.segments]]]>>
               \o CaptionWrites(id, Tail(tracks))

\* for (const video of videos) in generateVideoEndpoints: the full file, the
\* metadata file, the caption files
RECURSIVE EndpointWrites(_)
EndpointWrites(videos) ==
    IF videos = <<>> THEN <<>>
    ELSE LET video == Head(videos)
         IN  <<[root |-> "", file |-> video.id \o DotJson,
                content |-> [kind |-> "video", data |-> video]],
               [root |-> "", file |-> video.id \o <<"-","m","e","t","a","d","a","t","a">> \o DotJson,
                content |-> [kind |-> "metadata", data |-> WithoutCaptions(video)]]>>
               \o CaptionWrites(video.id, Entries(video.captions))
               \o EndpointWrites(Tail(videos))

\* api/video as a complete directory of the records: every file holds what
\* was written to it last
EndpointFiles(videos) ==
    LET writes == EndpointWrites(videos)
        last(n) == CHOOSE i \in 1..Len(writes) :
                       writes[i].file = n /\ \A j \in (i + 1)..Len(writes) : writes[j].file # n
    IN  [n \in {writes[i].file : i \in 1..Len(writes)} |-> writes[last(n)].content]

(***************************************************************************)
(* generateSearchIndex: the index of one video (both generators)           *)
(***************************************************************************)
\* .split(/\s+/): the pieces between the runs of white space; a piece is
\* empty when the string begins or ends with white space
RECURSIVE split(_, _)
split(s, piece) ==
    IF s = <<>> THEN <<piece>>
    ELSE IF Head(s) \in WhiteSpace THEN <<piece>> \o split(SkipSpace(s), <<>>)
    ELSE split(Tail(s), Append(piece, Head(s)))

\* video.title.toLowerCase().replace(/[^\w\s]/g, '').split(/\s+/)
\*      .filter(word => word.length > 2)
TitleWords(title) ==
    LET word == Range(Upper) \cup Range(Lower) \cup Range(DigitChars) \cup {"_"}
        kept == SelectSeq(toLowerCase(title), LAMBDA c : c \in word \cup WhiteSpace)
    IN  SelectSeq(split(kept, <<>>), LAMBDA w : Len(w) > 2)

\* searchIndex.authors and searchIndex.keywords are plain objects ({}): a
\* lookup of a key the object does not own finds what Object.prototype has
\* under that name
ObjectPrototypeKeys ==
    {<<"c","o","n","s","t","r","u","c","t","o","r">>,
     <<"_","_","p","r","o","t","o","_","_">>,
     <<"t","o","S","t","r","i","n","g">>,
     <<"v","a","l","u","e","O","f">>,
     <<"h","a","s","O","w","n","P","r","o","p","e","r","t","y">>}

\* obj[key] = value
SetKey(obj, key, value) == [k \in DOMAIN obj \cup {key} |-> IF k = key THEN value ELSE obj[k]]

\* if (video.author) { if (!authors[author]) authors[author] = [];
\*                     authors[author].push(video.id); }
\* an inherited value is truthy and has no push: TypeError
IndexAuthor(acc, video) ==
    IF ~StrTruthy(video.author) THEN acc
    ELSE LET author == CHOOSE a \in video.author : TRUE IN
         IF author \in DOMAIN acc.authors
         THEN [acc EXCEPT !.authors[author] = Append(@, video.id)]
         ELSE IF author \in ObjectPrototypeKeys
         THEN [acc EXCEPT !.threw = TRUE]
         ELSE [acc EXCEPT !.authors = SetKey(@, author, <<video.id>>)]

\* for (const word of words) { if (!keywords[word]) keywords[word] = [];
\*   if (!keywords[word].includes(video.id)) keywords[word].push(video.id); }
\* an inherited value is truthy and has no includes: TypeError
RECURSIVE IndexWords(_, _, _)
IndexWords(acc, words, id) ==
    IF words = <<>> THEN acc
    ELSE LET word == Head(words) IN
         IF word \in DOMAIN acc.keywords
         THEN IndexWords(IF id \in Range(acc.keywords[word])
                         THEN acc
                         ELSE [acc EXCEPT !.keywords[word] = Append(@, id)],
                         Tail(words), id)
         ELSE IF word \in ObjectPrototypeKeys
         THEN [acc EXCEPT !.threw = TRUE]
         ELSE IndexWords([acc EXCEPT !.keywords = SetKey(@, word, <<id>>)], Tail(words), id)

\* the body of the loop over the videos: the entry, the author, the title
IndexVideo(acc, videoEntry, video) ==
    LET pushed   == [acc EXCEPT !.videos = Append(@, videoEntry)]
        authored == IndexAuthor(pushed, video)
    IN  IF authored.threw \/ ~StrTruthy(video.title)
        THEN authored
        ELSE IndexWords(authored, TitleWords(CHOOSE t \in video.title : TRUE), video.id)

(***************************************************************************)
(* The generator over the shards and the generator over api/video          *)
(*                                                                         *)
(* new Date().toISOString() is the time of the run, gen.run.  A step of    *)
(* generate() first computes what it will write (gen.todo); the writes     *)
(* then happen one file after the other.  The generator over the shards    *)
(* has the same getVideosFromShard as the HTTP layer.                      *)
(***************************************************************************)
\* for (const [shardPath, videoIds] of Object.entries(index.shards))
\*   const videos = await this.getVideosFromShard(shardPath)
RECURSIVE ShardsVideos(_)
ShardsVideos(entries) ==
    IF entries = <<>> THEN <<>>
    ELSE getVideosFromShard(Head(entries).path) \o ShardsVideos(Tail(entries))

\* the loop of generateSearchIndex over the videos of the shards: an
\* exception leaves the loop.  upload_date is a field no record of the model
\* has
RECURSIVE ShardsIndexVideos(_, _)
ShardsIndexVideos(videos, acc) ==
    IF videos = <<>> \/ acc.threw THEN acc
    ELSE LET video      == Head(videos)
             videoEntry == [id |-> video.id, title |-> video.title, author |-> video.author,
                            duration |-> video.duration, view_count |-> video.view_count,
                            has_captions |-> {video.captions # {}},
                            languages |-> {c.lang : c \in video.captions}]
         IN  ShardsIndexVideos(Tail(videos), IndexVideo(acc, videoEntry, video))

\* the three writes at the end of generateSearchIndex
SearchWrites(searchIndex) ==
    <<[root |-> "search/index.json", file |-> <<>>,
       content |-> [kind |-> "index",
                    data |-> [videos |-> searchIndex.videos, authors |-> searchIndex.authors,
                              keywords |-> searchIndex.keywords, generated_at |-> gen.run]]],
      [root |-> "search/videos.json", file |-> <<>>,
       content |-> [kind |-> "videos", data |-> searchIndex.videos]],
      [root |-> "search/authors.json", file |-> <<>>,
       content |-> [kind |-> "authors", data |-> searchIndex.authors]]>>

\* files.filter(f => f.endsWith('.json') && !f.includes('-')), in the order
\* readdir lists the names
VideoFiles == Entries({f \in DOMAIN videoDir : endsWith(f, DotJson) /\ ~includes(f, <<"-">>)})

\* the loop of generateSearchIndex over videoFiles: JSON.parse of a file that
\* is not a complete JSON text throws, as an exception of the indexing does;
\* both are caught for that file alone.  The file of a record has no field
\* has_captions and no field languages
RECURSIVE DirIndexFiles(_, _)
DirIndexFiles(names, acc) ==
    IF names = <<>> THEN acc
    ELSE LET content    == videoDir[Head(names)]
             videoData  == content.data
             videoEntry == [id |-> videoData.id, title |-> videoData.title,
                            author |-> videoData.author, duration |-> videoData.duration,
                            view_count |-> videoData.view_count,
                            has_captions |-> {}, languages |-> {}]
             indexed    == IF content.kind # "video"
                           THEN [acc EXCEPT !.threw = TRUE]
                           ELSE IndexVideo(acc, videoEntry, videoData)
         IN  DirIndexFiles(Tail(names),
                           [indexed EXCEPT !.threw = FALSE,
                                           !.warned = acc.warned \/ indexed.threw])

\* console.error('Failed to generate ...:', error.message) of the catch
\* around a step
FailureMessage(step) ==
    IF step = "stats" THEN "Failed to generate stats"
    ELSE IF step = "queue" THEN "Failed to generate queue status"
    ELSE IF step = "video" THEN "Failed to generate video endpoints"
    ELSE "Failed to generate search index"

\* no run yet
GenAtRest ==
    [program |-> "none", run |-> 0, pc |-> "start", step |-> "none", todo |-> <<>>,
     open |-> FALSE, ran |-> {}, log |-> {},
     result |-> [state |-> "pending", reported |-> {}]]

\* generator.generate(): the three fs.mkdir calls
Generate ==
    /\ gen.pc \in {"start", "done"}
    /\ gen.program # "none"
    /\ gen.run < MaxRuns
    /\ gen' = [gen EXCEPT !.run = @ + 1, !.pc = "stats", !.step = "none", !.ran = {}, !.log = {},
                          !.result = [state |-> "pending", reported |-> {}]]
    /\ prevApi' = [root |-> apiFiles, video |-> videoDir]
    /\ UNCHANGED <<storeVars, request, response, idAccess, pc, randomIds, used,
                   srtArgs, srtOut, apiFiles, videoDir, unwritable,
                   otherVars>>

\* generateStats of the generator over the shards
ShardsGenerateStats ==
    /\ gen.program = "shards" /\ gen.pc = "stats" /\ gen.todo = <<>>
    /\ gen' = IF MasterLoads
              THEN [gen EXCEPT !.pc = "video", !.step = "stats", !.ran = @ \cup {"stats"},
                               !.todo = <<[root |-> "stats.json", file |-> <<>>,
                                           content |-> [kind |-> "stats",
                                                        data |-> [total_videos |-> master.total,
                                                                  shards       |-> Len(master.shards),
                                                                  last_updated |-> master.updated,
                                                                  generated_at |-> gen.run]]]>>]
              ELSE [gen EXCEPT !.pc = "video", !.step = "stats", !.ran = @ \cup {"stats"},
                               !.log = @ \cup {FailureMessage("stats")}]
    /\ UNCHANGED <<storeVars, request, response, idAccess, pc, randomIds, used,
                   srtArgs, srtOut, apiFiles, videoDir, unwritable, prevApi,
                   otherVars>>

\* generateVideoEndpoints of the generator over the shards
ShardsGenerateVideoEndpoints ==
    /\ gen.program = "shards" /\ gen.pc = "video" /\ gen.todo = <<>>
    /\ gen' = IF MasterLoads
              THEN [gen EXCEPT !.pc = "search", !.step = "video", !.ran = @ \cup {"video"},
                               !.todo = EndpointWrites(ShardsVideos(master.shards))]
              ELSE [gen EXCEPT !.pc = "search", !.step = "video", !.ran = @ \cup {"video"},
                               !.log = @ \cup {FailureMessage("video")}]
    /\ UNCHANGED <<storeVars, request, response, idAccess, pc, randomIds, used,
                   srtArgs, srtOut, apiFiles, videoDir, unwritable, prevApi,
                   otherVars>>

\* generateSearchIndex of the generator over the shards
ShardsGenerateSearchIndex ==
    /\ gen.program = "shards" /\ gen.pc = "search" /\ gen.todo = <<>>
    /\ LET searchIndex == ShardsIndexVideos(ShardsVideos(master.shards),
                                            [videos |-> <<>>, authors |-> <<>>, keywords |-> <<>>,
                                             threw |-> FALSE])
       IN  gen' = IF MasterLoads /\ ~searchIndex.threw
                  THEN [gen EXCEPT !.pc = "manifest", !.step = "search", !.ran = @ \cup {"search"},
                                   !.todo = SearchWrites(searchIndex)]
                  ELSE [gen EXCEPT !.pc = "manifest", !.step = "search", !.ran = @ \cup {"search"},
                                   !.log = @ \cup {FailureMessage("search")}]
    /\ UNCHANGED <<storeVars, request, response, idAccess, pc, randomIds, used,
                   srtArgs, srtOut, apiFiles, videoDir, unwritable, prevApi,
                   otherVars>>

\* generateStats of the generator over api/video
DirGenerateStats ==
    /\ gen.program = "videoDir" /\ gen.pc = "stats" /\ gen.todo = <<>>
    /\ gen' = [gen EXCEPT !.pc = "queue", !.step = "stats", !.ran = @ \cup {"stats"},
                          !.todo = <<[root |-> "stats.json", file |-> <<>>,
                                      content |-> [kind |-> "stats",
                                                   data |-> [total_videos |-> Len(VideoFiles),
                                                             generated_at |-> gen.run]]]>>]
    /\ UNCHANGED <<storeVars, request, response, idAccess, pc, randomIds, used,
                   srtArgs, srtOut, apiFiles, videoDir, unwritable, prevApi,
                   otherVars>>

\* generateQueueStatus: what getStatus returns, its
\* processed.last_updated: new Date().toISOString() included
GenerateQueueStatus ==
    /\ gen.program = "videoDir" /\ gen.pc = "queue" /\ gen.todo = <<>>
    /\ gen' = [gen EXCEPT !.pc = "video", !.step = "queue", !.ran = @ \cup {"queue"},
                          !.todo = <<[root |-> "queue.json", file |-> <<>>,
                                      content |-> [kind |-> "queue",
                                                   data |-> [status       |-> getStatus,
                                                             last_updated |-> gen.run]]]>>]
    /\ UNCHANGED <<storeVars, request, response, idAccess, pc, randomIds, used,
                   srtArgs, srtOut, apiFiles, videoDir, unwritable, prevApi,
                   otherVars>>

\* generateVideoEndpoints of the generator over api/video: a message, return
DirGenerateVideoEndpoints ==
    /\ gen.program = "videoDir" /\ gen.pc = "video" /\ gen.todo = <<>>
    /\ gen' = [gen EXCEPT !.pc = "search", !.step = "video", !.ran = @ \cup {"video"},
                          !.log = @ \cup {"Video endpoints are now generated directly by scraper - skipping"}]
    /\ UNCHANGED <<storeVars, request, response, idAccess, pc, randomIds, used,
                   srtArgs, srtOut, apiFiles, videoDir, unwritable, prevApi,
                   otherVars>>

\* generateSearchIndex of the generator over api/video
DirGenerateSearchIndex ==
    /\ gen.program = "videoDir" /\ gen.pc = "search" /\ gen.todo = <<>>
    /\ LET searchIndex == DirIndexFiles(VideoFiles,
                                        [videos |-> <<>>, authors |-> <<>>, keywords |-> <<>>,
                                         threw |-> FALSE, warned |-> FALSE])
       IN  gen' = [gen EXCEPT !.pc = "manifest", !.step = "search", !.ran = @ \cup {"search"},
                              !.todo = SearchWrites(searchIndex),
                              !.log = IF searchIndex.warned
                                      THEN @ \cup {"Failed to process video file"}
                                      ELSE @]
    /\ UNCHANGED <<storeVars, request, response, idAccess, pc, randomIds, used,
                   srtArgs, srtOut, apiFiles, videoDir, unwritable, prevApi,
                   otherVars>>

\* generateManifest (the same in both generators): no try around the write
GenerateManifest ==
    /\ gen.pc = "manifest" /\ gen.todo = <<>>
    /\ gen' = [gen EXCEPT !.pc = "complete", !.step = "manifest", !.ran = @ \cup {"manifest"},
                          !.todo = <<[root |-> "manifest.json", file |-> <<>>,
                                      content |-> [kind |-> "manifest",
                                                   data |-> [generated_at |-> gen.run]]]>>]
    /\ UNCHANGED <<storeVars, request, response, idAccess, pc, randomIds, used,
                   srtArgs, srtOut, apiFiles, videoDir, unwritable, prevApi,
                   otherVars>>

\* fs.writeFile opens the file at its final path with flag 'w': the file is
\* truncated.  When the open fails the exception goes to the catch of the
\* step, which logs it and ends the step; generateManifest has no catch and
\* the exception rejects generate()
WriteOpen ==
    /\ gen.todo # <<>>
    /\ ~gen.open
    /\ LET w == Head(gen.todo) IN
       IF (w.root # "" /\ w.root \in unwritable.root) \/ (w.root = "" /\ w.file \in unwritable.video)
       THEN /\ gen' = IF gen.step = "manifest"
                      THEN [gen EXCEPT !.todo = <<>>, !.pc = "rejected",
                                       !.result = [state |-> "rejected", reported |-> {"manifest"}]]
                      ELSE [gen EXCEPT !.todo = <<>>, !.log = @ \cup {FailureMessage(gen.step)}]
            /\ UNCHANGED <<apiFiles, videoDir, apiVideo, otherVars>>
       ELSE /\ gen' = [gen EXCEPT !.open = TRUE]
            /\ apiFiles' = IF w.root # "" THEN [apiFiles EXCEPT ![w.root] = {Partial}] ELSE apiFiles
            /\ videoDir' = IF w.root # "" THEN videoDir ELSE SetKey(videoDir, w.file, Partial)
            /\ apiVideo' = FullFileIds(videoDir')
    /\ UNCHANGED <<master, files, urlsTxt, request, response, idAccess, pc, randomIds, used,
                   srtArgs, srtOut, unwritable, prevApi,
                   otherVars>>

\* the data is written and the file closed; after the manifest
\* console.log('Static API generation complete!') and generate() returns
\* nothing
WriteClose ==
    /\ gen.todo # <<>>
    /\ gen.open
    /\ LET w == Head(gen.todo) IN
       /\ gen' = IF gen.step = "manifest"
                 THEN [gen EXCEPT !.open = FALSE, !.todo = Tail(@), !.pc = "done",
                                  !.result = [state |-> "resolved", reported |-> {}]]
                 ELSE [gen EXCEPT !.open = FALSE, !.todo = Tail(@)]
       /\ apiFiles' = IF w.root # "" THEN [apiFiles EXCEPT ![w.root] = {w.content}] ELSE apiFiles
       /\ videoDir' = IF w.root # "" THEN videoDir ELSE SetKey(videoDir, w.file, w.content)
       /\ apiVideo' = FullFileIds(videoDir')
    /\ UNCHANGED <<master, files, urlsTxt, request, response, idAccess, pc, randomIds, used,
                   srtArgs, srtOut, unwritable, prevApi,
                   otherVars>>

\* the process is interrupted while a file is open
Kill ==
    /\ gen.open
    /\ gen' = [gen EXCEPT !.pc = "killed", !.todo = <<>>, !.open = FALSE]
    /\ UNCHANGED <<storeVars, request, response, idAccess, pc, randomIds, used,
                   srtArgs, srtOut, apiFiles, videoDir, unwritable, prevApi,
                   otherVars>>

(***************************************************************************)
(* The static client (scripts/youtube-api.js)                              *)
(***************************************************************************)
\* searchVideos(query) over the parsed search/index.json.  A field the
\* generator had as undefined is not in the JSON text, so it is undefined
\* for the client and .toLowerCase() on it is a TypeError; the keyword map
\* is a plain object, so an inherited key is truthy and has no forEach.
\* a || b || c evaluates b only when a is false, c only when b is false
clientSearchVideos(searchIndex, query) ==
    LET q           == toLowerCase(query)
        keywords    == Range(split(q, <<>>))
        matchingIds == UNION {Range(searchIndex.keywords[k]) :
                                 k \in keywords \cap DOMAIN searchIndex.keywords}
        inTitle(v)  == \E t \in v.title : includes(toLowerCase(t), q)
        inAuthor(v) == \E a \in v.author : includes(toLowerCase(a), q)
        throws(v)   == /\ v.id \notin matchingIds
                       /\ v.title = {} \/ (~inTitle(v) /\ v.author = {})
        threw       == \/ \E k \in keywords \ DOMAIN searchIndex.keywords : k \in ObjectPrototypeKeys
                       \/ \E i \in 1..Len(searchIndex.videos) : throws(searchIndex.videos[i])
    IN  [threw  |-> threw,
         videos |-> IF threw THEN <<>>
                    ELSE SelectSeq(searchIndex.videos,
                                   LAMBDA v : v.id \in matchingIds \/ inTitle(v) \/ inAuthor(v))]

\* a client calls searchVideos once a generator run has ended and
\* search/index.json is there
ClientSearch ==
    /\ client.query = {}
    /\ gen.pc = "done"
    /\ \E content \in apiFiles["search/index.json"] :
         /\ content.kind = "index"
         /\ \E query \in {<<"A","l">>, <<"r","i","c","k">>, <<"U","p"," ","r","i","c","k">>} :
              client' = [query  |-> {query},
                         threw  |-> clientSearchVideos(content.data, query).threw,
                         videos |-> clientSearchVideos(content.data, query).videos]
    /\ UNCHANGED <<storeVars, request, response, idAccess, pc, randomIds, used, viewVars,
                   randomIndex, writer>>

\* the reply has been sent; the server waits for the next request
Return ==
    /\ request.op # "idle"
    /\ pc = "idle"
    /\ request' = Idle
    /\ response' = NoResponse
    /\ idAccess' = {}
    /\ UNCHANGED <<storeVars, pc, randomIds, used, viewVars, otherVars>>

\* no generator runs and nothing is being formatted
ViewsAtRest ==
    /\ srtArgs = [ms |-> {}, segments |-> {}]
    /\ srtOut = [time |-> {}, generatorTime |-> {}, http |-> {}, static |-> {}]
    /\ apiFiles = NoApiFiles
    /\ gen = GenAtRest
    /\ unwritable = [root |-> {}, video |-> {}]
    /\ prevApi = [root |-> apiFiles, video |-> videoDir]

(***************************************************************************)
(* put(record) and get(id) of the shard store (scraper.js, not among the   *)
(* sources): sections 4.1, 4.2, 5 and 9 of the specification               *)
(*                                                                         *)
(* files[k] is the k-th shard file that was created and writer.names[k]    *)
(* its name, the prefix directory and the file number; an entry of         *)
(* index.shards holds k as its path.                                       *)
(***************************************************************************)
Writers == {1, 2}

PrefixLength == 2

\* prefix(id, k)
prefix(id) == SubSeq(id, 1, IF Len(id) < PrefixLength THEN Len(id) ELSE PrefixLength)

PutId(c) == [i \in 1..IdLength |-> IF i = IdLength THEN c ELSE "a"]

\* three ids of one prefix, one of them with two different records, an id of
\* another prefix and an id that is not one
PutRecords ==
    {[VideoB EXCEPT !.id = PutId(c)] : c \in {"1", "2", "3"}}
        \cup {[VideoC EXCEPT !.id = PutId("1")], VideoC, [VideoB EXCEPT !.id = IdShort]}

\* the file that has the name, if one has
ShardOf(name) == {k \in DOMAIN writer.names : writer.names[k] = name}

\* a slip in the choice of the shard: the first file of the prefix, always
choose_shardNoRollover(pre, index) == [prefix |-> pre, n |-> 0]

\* choose_shard(prefix, index) -> existing shard if below capacity, else new
\* sequential shard
choose_shard(pre, index) ==
    LET nameOf(j) == writer.names[index.shards[j].path]
        mine      == {j \in DOMAIN index.shards : nameOf(j).prefix = pre}
    IN  IF mine = {} THEN [prefix |-> pre, n |-> 0]
        ELSE LET current == CHOOSE j \in mine : \A i \in mine : nameOf(i).n <= nameOf(j).n
             IN  IF Len(index.shards[current].ids) < Threshold
                 THEN nameOf(current)
                 ELSE [prefix |-> pre, n |-> nameOf(current).n + 1]

\* shard_path(id) = directory(prefix(id, k)) / file(floor(sequence_number_within_prefix)):
\* the sequence number is the place of the id among the processed ids of its
\* prefix, the file number grows by one every Threshold records
shard_path(id, index) ==
    LET same == SelectSeq(index.processed, LAMBDA x : prefix(x) = prefix(id))
        seq  == CHOOSE i \in 1..Len(same) : same[i] = id /\ \A j \in 1..(i - 1) : same[j] # id
    IN  [prefix |-> prefix(id), n |-> (seq - 1) \div Threshold]

\* get(id) -> VideoRecord | NotFound: compute shard_path(id), read the shard,
\* linear-scan for matching id; NotFound if id absent from index or shard
\* yields no match, also when the shard file is absent
get(id) ==
    IF ~isValidVideoId(id) \/ id \notin Range(master.processed) THEN {}
    ELSE LET at == ShardOf(shard_path(id, master)) IN
         IF at = {} THEN {}
         ELSE LET recs == LineRecords(files[CHOOSE k \in at : TRUE].lines)
                  hits == {i \in 1..Len(recs) : recs[i].id = id}
              IN  IF hits = {} THEN {}
                  ELSE {recs[CHOOSE i \in hits : \A j \in hits : i <= j]}

AtRest == [pc |-> "idle", record |-> {}, target |-> {}]

\* no put yet: no writer at work, the lock free, no shard file named.
\* written, puts, sequential and got are the history the properties speak
\* of: the record each successful put stored, the number of puts that passed the
\* checks, whether
\* the puts so far came one after the other and none failed, the last get
WriterAtRest ==
    [proc       |-> [w \in Writers |-> AtRest],
     lock       |-> {},
     names      |-> <<>>,
     written    |-> <<>>,
     puts       |-> 0,
     sequential |-> TRUE,
     got        |-> [id |-> {}, video |-> {}]]

\* put, up to the lock: reject with InvalidId, reject with Duplicate if the id
\* is already present in processed (the put ends there and nothing changes);
\* the target shard path is known before the lock, which is scoped to it
PutStart(w) ==
    /\ writer.proc[w].pc = "idle"
    /\ writer.puts < MaxPuts
    /\ \E record \in PutRecords :
         writer' = IF ~isValidVideoId(record.id) \/ record.id \in Range(master.processed)
                   THEN writer
                   ELSE [writer EXCEPT
                           !.puts       = @ + 1,
                           !.sequential = @ /\ \A o \in Writers : writer.proc[o].pc = "idle",
                           !.proc[w]    = [pc     |-> "write",
                                           record |-> {record},
                                           target |-> {choose_shard(prefix(record.id), master)}]]
    /\ UNCHANGED <<storeVars, request, response, idAccess, pc, randomIds, used, viewVars,
                   randomIndex, client>>

\* acquire the exclusive lock (a single global ingestion lock); read the
\* current shard for that path if it exists (empty otherwise), append the
\* record as one line, persist via temporary file and atomic rename: the file
\* changes in one step
PutWrite(w) ==
    /\ writer.proc[w].pc = "write"
    /\ writer.lock = {}
    /\ LET record == CHOOSE r \in writer.proc[w].record : TRUE
           target == CHOOSE t \in writer.proc[w].target : TRUE
           at     == ShardOf(target)
       IN  IF at = {}
           THEN /\ files' = Append(files, ShardFile(<<RecordLine(record)>>))
                /\ writer' = [writer EXCEPT !.lock = {w}, !.names = Append(@, target),
                                                !.proc[w].pc = "index"]
           ELSE LET k == CHOOSE x \in at : TRUE IN
                /\ files' = [files EXCEPT ![k] =
                               ShardFile(SelectSeq(@.lines, LAMBDA l : l.kind # "blank")
                                            \o <<RecordLine(record)>>)]
                /\ writer' = [writer EXCEPT !.lock = {w}, !.proc[w].pc = "index"]
    /\ UNCHANGED <<master, apiVideo, urlsTxt, request, response, idAccess, pc, randomIds, used,
                   viewVars, randomIndex, client>>

\* only after the shard write: add id to processed, append id to the shard's
\* id list (creating the entry if new), increment total, refresh updated,
\* persist the index via temporary file and rename; then the lock is released
PutIndex(w) ==
    /\ writer.proc[w].pc = "index"
    /\ LET record == CHOOSE r \in writer.proc[w].record : TRUE
           k      == CHOOSE x \in ShardOf(CHOOSE t \in writer.proc[w].target : TRUE) : TRUE
           listed == {j \in DOMAIN master.shards : master.shards[j].path = k}
       IN  /\ master' = [master EXCEPT
                !.processed = Append(@, record.id),
                !.shards    = IF listed = {}
                              THEN Append(@, [path |-> k, ids |-> <<record.id>>])
                              ELSE [@ EXCEPT ![CHOOSE j \in listed : TRUE].ids = Append(@, record.id)],
                !.total     = @ + 1,
                !.updated   = "t1"]
           /\ writer' = [writer EXCEPT
                !.lock    = {},
                !.proc[w] = AtRest,
                !.written = IF record.id \in DOMAIN @ THEN @ ELSE (record.id :> record) @@ @]
    /\ UNCHANGED <<files, apiVideo, urlsTxt, request, response, idAccess, pc, randomIds, used,
                   viewVars, randomIndex, client>>

\* IOFailure, or the writer dies: at any step after the checks the put ends
\* there, and the lock it holds is released
PutFail(w) ==
    /\ writer.proc[w].pc \in {"write", "index"}
    /\ writer' = [writer EXCEPT
          !.lock       = @ \ {w},
          !.sequential = FALSE,
          !.proc[w]    = AtRest]
    /\ UNCHANGED <<storeVars, request, response, idAccess, pc, randomIds, used, viewVars,
                   randomIndex, client>>

\* GET /video/:id for an id a put was given, and get(id) of the store
PutGet ==
    /\ \E record \in PutRecords :
         /\ request' = [Idle EXCEPT !.op = "video", !.id = {record.id}]
         /\ response' = VideoHandler(request').reply
         /\ idAccess' = VideoHandler(request').access
         /\ writer' = [writer EXCEPT !.got = [id |-> {record.id}, video |-> get(record.id)]]
    /\ UNCHANGED <<storeVars, pc, randomIds, used, viewVars, randomIndex, client>>

\* no turn of the loop of getRandomVideos yet, no writer at work, no client
\* search made
OthersAtRest ==
    /\ randomIndex = 0
    /\ writer = WriterAtRest
    /\ client = [query |-> {}, threw |-> FALSE, videos |-> <<>>]

(***************************************************************************)
(* Specification of the read path                                          *)
(***************************************************************************)
Init ==
    /\ \E f \in Flats : \E c \in Cuts(Len(f)) : \E st \in {"ok", "missing", "unparseable"} :
         /\ st = "missing" => f = <<>>
         /\ st = "unparseable" => Len(f) = 1
         /\ files = [k \in 1..ShardCount(f, c) |-> ShardFile(Chunk(f, c, k))]
         /\ master = MasterOf(f, c, st)
         /\ apiVideo = Range(Ids(LineRecords(f)))
         /\ videoDir = EndpointFiles(LineRecords(f))
    /\ ViewsAtRest
    /\ urlsTxt = [exists |-> FALSE, lines |-> <<>>]
    /\ request = Idle
    /\ response = NoResponse
    /\ idAccess = {}
    /\ pc = "idle"
    /\ randomIds = <<>>
    /\ used = {}
    /\ OthersAtRest

Next ==
    \/ VideosRoute
    \/ SearchRoute
    \/ StatsRoute
    \/ RandomRoute
    \/ RandomDraw
    \/ RandomResolve
    \/ VideoRoute
    \/ CliGet
    \/ CliExport
    \/ StaticCliGet
    \/ StaticCliExport
    \/ Return

Spec == Init /\ [][Next]_vars

(***************************************************************************)
(* Specification of the queue reconciler                                   *)
(***************************************************************************)
\* the lines tried in urls.txt: a short URL, a watch URL with a further
\* parameter, a bare id, a line without an id, a line of white space, an
\* embed URL, a short URL whose id segment has three characters
QueueLines ==
    {Https \o ShortPrefix \o IdA,
     Https \o Www \o WatchPrefix \o IdB \o <<"&","t","=","1","0">>,
     IdA,
     <<"h","e","l","l","o">>,
     <<" ">>,
     Https \o Www \o EmbedPrefix \o IdC,
     Https \o ShortPrefix \o IdShort}

QueueFiles ==
    {[exists |-> FALSE, lines |-> <<>>]} \cup
    {[exists |-> TRUE, lines |-> l] : l \in UNION {[1..n -> QueueLines] : n \in 0..MaxQueue}}

InitQueue ==
    /\ \E f \in Flats : \E st \in {"ok", "missing", "unparseable"} :
         /\ \A i \in 1..Len(f) : f[i].kind = "record"
         /\ st = "missing" => f = <<>>
         /\ st = "unparseable" => f # <<>>
         /\ files = [k \in 1..ShardCount(f, {}) |-> ShardFile(Chunk(f, {}, k))]
         /\ master = MasterOf(f, {}, st)
         /\ apiVideo = Range(Ids(LineRecords(f)))
         /\ videoDir = EndpointFiles(LineRecords(f))
    /\ ViewsAtRest
    /\ urlsTxt \in QueueFiles
    /\ request = Idle
    /\ response = NoResponse
    /\ idAccess = {}
    /\ pc = "idle"
    /\ randomIds = <<>>
    /\ used = {}
    /\ OthersAtRest

NextQueue ==
    \/ GetStatus
    \/ Return

SpecQueue == InitQueue /\ [][NextQueue]_vars

(***************************************************************************)
(* Specification of formatTime and generateSRT                             *)
(***************************************************************************)
\* the values of ms tried are every carry between the four fields with hours
\* of one, two and three digits; the segments tried are those of the sample
\* records and one past the first hour
InitSrt ==
    /\ files = <<>>
    /\ master = MasterOf(<<>>, {}, "ok")
    /\ apiVideo = {}
    /\ videoDir = <<>>
    /\ urlsTxt = [exists |-> FALSE, lines |-> <<>>]
    /\ request = Idle
    /\ response = NoResponse
    /\ idAccess = {}
    /\ pc = "idle"
    /\ randomIds = <<>>
    /\ used = {}
    /\ OthersAtRest
    /\ \E h \in {0, 1, 99, 100}, m \in {0, 1, 59}, s \in {0, 3, 59}, k \in {0, 1, 999} :
       \E segments \in UNION {[1..n -> {[s |-> 0, e |-> 3000, t |-> "We're no strangers to love"],
                                        [s |-> 3000, e |-> 6000, t |-> "You know the rules and so do I"],
                                        [s |-> 500, e |-> 61001, t |-> "Hallo"],
                                        [s |-> 3599999, e |-> 3661001, t |-> "Bye"]}] :
                                 n \in 0..MaxSegments} :
         srtArgs = [ms |-> {h * 3600000 + m * 60000 + s * 1000 + k}, segments |-> {segments}]
    /\ srtOut = [time |-> {}, generatorTime |-> {}, http |-> {}, static |-> {}]
    /\ apiFiles = NoApiFiles
    /\ gen = GenAtRest
    /\ unwritable = [root |-> {}, video |-> {}]
    /\ prevApi = [root |-> apiFiles, video |-> videoDir]

NextSrt ==
    \/ FormatTime
    \/ GenerateSRT

SpecSrt == InitSrt /\ [][NextSrt]_vars

(***************************************************************************)
(* Specification of the static generators                                  *)
(***************************************************************************)
\* the generator over the shards starts with an empty api/video; the one
\* over api/video finds the directory empty or as the scraper wrote it, and
\* urls.txt absent or with two lines.  The writes that fail are none or
\* those to one path
InitGen ==
    /\ \E f \in GenFlats : \E c \in Cuts(Len(f)) : \E st \in {"ok", "missing", "unparseable"} :
       \E program \in {"shards", "videoDir"} : \E scraped \in BOOLEAN :
         /\ st = "missing" => f = <<>>
         /\ st = "unparseable" => Len(f) = 1
         /\ program = "shards" => ~scraped
         /\ files = [k \in 1..ShardCount(f, c) |-> ShardFile(Chunk(f, c, k))]
         /\ master = MasterOf(f, c, st)
         /\ videoDir = IF scraped THEN EndpointFiles(LineRecords(f)) ELSE <<>>
         /\ gen = [GenAtRest EXCEPT !.program = program]
         /\ urlsTxt \in IF program = "videoDir"
                        THEN {[exists |-> FALSE, lines |-> <<>>],
                              [exists |-> TRUE,
                               lines  |-> <<Https \o ShortPrefix \o IdA,
                                            Https \o Www \o WatchPrefix \o IdB>>]}
                        ELSE {[exists |-> FALSE, lines |-> <<>>]}
    /\ apiVideo = FullFileIds(videoDir)
    /\ unwritable \in {[root |-> {}, video |-> {}],
                       [root |-> {"stats.json"}, video |-> {}],
                       [root |-> {"manifest.json"}, video |-> {}],
                       [root |-> {}, video |-> {IdA \o DotJson}]}
    /\ apiFiles = NoApiFiles
    /\ prevApi = [root |-> apiFiles, video |-> videoDir]
    /\ srtArgs = [ms |-> {}, segments |-> {}]
    /\ srtOut = [time |-> {}, generatorTime |-> {}, http |-> {}, static |-> {}]
    /\ request = Idle
    /\ response = NoResponse
    /\ idAccess = {}
    /\ pc = "idle"
    /\ randomIds = <<>>
    /\ used = {}
    /\ OthersAtRest

NextGen ==
    \/ Generate
    \/ ShardsGenerateStats
    \/ ShardsGenerateVideoEndpoints
    \/ ShardsGenerateSearchIndex
    \/ DirGenerateStats
    \/ GenerateQueueStatus
    \/ DirGenerateVideoEndpoints
    \/ DirGenerateSearchIndex
    \/ GenerateManifest
    \/ WriteOpen
    \/ WriteClose
    \/ Kill
    \/ ClientSearch

SpecGen == InitGen /\ [][NextGen]_vars

(***************************************************************************)
(* Specification of getRandomVideos over any processed list                *)
(*                                                                         *)
(* index.processed is read as the file has it: the same id may be there    *)
(* more than once.  Math.random is fair: every index that can be drawn     *)
(* again and again is drawn, and the code after the loop runs.             *)
(***************************************************************************)
InitRandom ==
    /\ \E f \in Flats : \E p \in UNION {[1..n -> Range(Ids(LineRecords(f)))] : n \in 0..MaxLines} :
         /\ \A i \in 1..Len(f) : f[i].kind = "record"
         /\ Len(f) < MaxLines
         /\ files = [k \in 1..ShardCount(f, {}) |-> ShardFile(Chunk(f, {}, k))]
         /\ master = [MasterOf(f, {}, "ok") EXCEPT !.processed = p]
         /\ apiVideo = Range(Ids(LineRecords(f)))
         /\ videoDir = EndpointFiles(LineRecords(f))
    /\ ViewsAtRest
    /\ urlsTxt = [exists |-> FALSE, lines |-> <<>>]
    /\ request = Idle
    /\ response = NoResponse
    /\ idAccess = {}
    /\ pc = "idle"
    /\ randomIds = <<>>
    /\ used = {}
    /\ OthersAtRest

NextRandom ==
    \/ RandomRouteAnyCount
    \/ RandomDraw
    \/ RandomResolve
    \/ Return

SpecRandom ==
    /\ InitRandom
    /\ [][NextRandom]_vars
    /\ WF_vars(RandomResolve)
    /\ \A i \in 0..(MaxLines - 1) : SF_vars(RandomDraw /\ randomIndex' = i)


(***************************************************************************)
(* Specification of the writers of the store                               *)
(*                                                                         *)
(* The store starts empty, or with the one record an earlier put stored.   *)
(* Writers put records at the same time, each step of a put is one step,   *)
(* and a put may fail between any two.                                     *)
(***************************************************************************)
InitPut ==
    /\ \E f \in {<<>>, <<RecordLine([VideoB EXCEPT !.id = PutId("3")])>>} :
         /\ files = [k \in 1..ShardCount(f, {}) |-> ShardFile(Chunk(f, {}, k))]
         /\ master = MasterOf(f, {}, "ok")
         /\ writer = [WriterAtRest EXCEPT
                         !.names   = [k \in 1..Len(f) |-> [prefix |-> prefix(LineRecords(f)[k].id), n |-> 0]],
                         !.written = [id \in {LineRecords(f)[k].id : k \in 1..Len(f)} |->
                                         CHOOSE r \in Range(LineRecords(f)) : r.id = id]]
    /\ apiVideo = {}
    /\ videoDir = <<>>
    /\ ViewsAtRest
    /\ urlsTxt = [exists |-> FALSE, lines |-> <<>>]
    /\ request = Idle
    /\ response = NoResponse
    /\ idAccess = {}
    /\ pc = "idle"
    /\ randomIds = <<>>
    /\ used = {}
    /\ randomIndex = 0
    /\ client = [query |-> {}, threw |-> FALSE, videos |-> <<>>]

NextPut ==
    \/ \E w \in Writers : PutStart(w)
    \/ \E w \in Writers : PutWrite(w)
    \/ \E w \in Writers : PutIndex(w)
    \/ \E w \in Writers : PutFail(w)
    \/ PutGet

SpecPut == InitPut /\ [][NextPut]_vars
(***************************************************************************)
(* What the claims speak of                                                *)
(***************************************************************************)
Min(a, b) == IF a <= b THEN a ELSE b

\* the records at positions offset .. offset+limit-1 (counted from 0) of s
Slice(s, offset, limit) == SubSeq(s, offset + 1, Min(offset + limit, Len(s)))

TheInt(a) == CHOOSE x \in a : TRUE

\* a filter is supplied when its parameter is present; a numeric one when it
\* is an integer
SatisfiesSupplied(video, r) ==
    /\ \A a \in r.author : video.author = {a}
    /\ \A m \in r.min_views : \A n \in parseIntStr(m) : video.view_count >= n
    /\ \A m \in r.max_duration : \A n \in parseIntStr(m) : video.duration <= n

\* query (case-insensitive) is a substring of title or author
ContainsQuery(video, q) ==
    \/ \E t \in video.title : includes(toLowerCase(t), toLowerCase(q))
    \/ \E a \in video.author : includes(toLowerCase(a), toLowerCase(q))

\* the match sequence: all matching records in shard iteration order
MatchSeq(r) == SelectSeq(StoreRecords, LAMBDA v : \E q \in r.q : ContainsQuery(v, q))

\* the records a full scan reads, shard after shard in index order
RECURSIVE ScanFrom(_)
ScanFrom(entries) ==
    IF entries = <<>> THEN <<>>
    ELSE getVideosFromShard(Head(entries).path) \o ScanFrom(Tail(entries))

\* the sequence list pages: the scanned records that pass the filter lines
ListSequence(o) == SelectSeq(ScanFrom(master.shards), LAMBDA v : PassesFilters(v, o))

ListServed == request.op = "videos" /\ response.status = 200

SearchServed == request.op = "search" /\ response.status = 200

ReqLimit == TheInt(QueryInt(request.limit, DefaultLimit))

ReqOffset == TheInt(QueryInt(request.offset, DefaultOffset))

\* C1: the total returned by list is the number of records of the store that
\* satisfy the filter (as list itself applies it), whatever limit and offset
\* are.
C1_ListTotalIsMatchCount ==
    (ListServed /\ NoCorruptLine) =>
        response.total =
            {Len(SelectSeq(StoreRecords, LAMBDA v : PassesFilters(v, ListOptions(request))))}

\* C2: search returns exactly the records at positions offset .. offset+limit-1
\* of the sequence of all matching records taken in shard iteration order.
C2_SearchPagesMatchSequence ==
    (SearchServed /\ NoCorruptLine) =>
        response.videos = Slice(MatchSeq(request), ReqOffset, ReqLimit)

\* C3: the total returned by search is the number of all records whose title
\* or author contains the query, for every limit and offset.
C3_SearchTotalIsMatchCount ==
    (SearchServed /\ NoCorruptLine) => response.total = {Len(MatchSeq(request))}

\* C4: every record returned by list satisfies every supplied filter, the
\* bound value 0 included, and no record that satisfies them is left out of
\* the filtered sequence.
C4_ListAppliesSuppliedFilters ==
    (ListServed /\ NoCorruptLine) =>
        /\ \A i \in 1..Len(response.videos) : SatisfiesSupplied(response.videos[i], request)
        /\ \A i \in 1..Len(StoreRecords) :
              SatisfiesSupplied(StoreRecords[i], request)
                  => PassesFilters(StoreRecords[i], ListOptions(request))

\* C5: against an unchanged store, list returns exactly the records at
\* positions offset .. offset+limit-1 of the filtered sequence, which the
\* store and the filter alone determine; the page (offset n, limit n) is
\* disjoint from the page (offset 0, limit n) and the two together are the
\* page (offset 0, limit 2n).
C5_ListPagesFilteredSequence ==
    ListServed =>
        LET o    == ListOptions(request)
            n    == ReqLimit
            head == listVideos([o EXCEPT !.offset = {0}]).videos
            both == listVideos([o EXCEPT !.offset = {0}, !.limit = {2 * n}]).videos
        IN  /\ response.videos = Slice(ListSequence(o), ReqOffset, ReqLimit)
            /\ ReqOffset = n =>
                  /\ head \o response.videos = both
                  /\ Range(Ids(head)) \cap Range(Ids(response.videos)) = {}

\* C5 happens: a second page that is not empty, of a filter that leaves a
\* record out, over a store of two shards
C5_Witness ==
    /\ ListServed
    /\ ReqOffset = ReqLimit
    /\ ReqLimit > 0
    /\ response.videos # <<>>
    /\ Len(master.shards) = 2
    /\ Len(ListSequence(ListOptions(request))) < Len(StoreRecords)

\* C6: when one line of a shard does not parse, list still sees every other
\* record of that shard: an unfiltered page that is large enough holds every
\* record of the store.
C6_CorruptLineSkippedOnly ==
    (/\ ListServed
     /\ request.author = {} /\ request.min_views = {} /\ request.max_duration = {}
     /\ ReqOffset = 0
     /\ ReqLimit >= Len(StoreRecords))
        => Range(response.videos) = Range(StoreRecords)

RandomServed == request.op = "random" /\ response.status = 200

\* the records the index lists as processed
ProcessedRecords == {v \in Range(StoreRecords) : v.id \in Range(master.processed)}

\* C7: random(count) returns no id twice and at most count records, and when
\* count is at least the number of distinct processed ids it returns every
\* stored record exactly once.
C7_RandomWithoutReplacement ==
    RandomServed =>
        LET ids == Ids(response.videos) IN
        /\ NoDuplicates(ids)
        /\ JsGE(ReqCount, {Len(ids)})
        /\ JsGE(ReqCount, {Cardinality(Range(master.processed))}) =>
              /\ Range(response.videos) = ProcessedRecords
              /\ Len(ids) = Cardinality(ProcessedRecords)

\* C7 happens: a draw of an id already used was refused on the way to a reply
\* that holds all of at least two records
C7_Witness ==
    /\ RandomServed
    /\ Len(response.videos) >= 2
    /\ JsGE(ReqCount, {Cardinality(Range(master.processed))})

\* C8: no entry point that takes a video id touches storage with an id that
\* does not match the 11-character pattern.
C8_MalformedIdNeverReachesStorage ==
    \A id \in request.id : ~isValidVideoId(id) => idAccess = {}

StatusServed == request.op = "status" /\ response.status = 200

TheStatus == CHOOSE b \in response.body : TRUE

\* s without the later occurrences of its elements
RECURSIVE FirstOccurrences(_)
FirstOccurrences(s) ==
    IF s = <<>> THEN <<>>
    ELSE LET front == FirstOccurrences(SubSeq(s, 1, Len(s) - 1)) IN
         IF s[Len(s)] \in Range(front) THEN front ELSE Append(front, s[Len(s)])

\* the normalized ids of the input, in input order
NormalizedIds == QueuedVideoIds(QueuedUrls)

\* C9: pending holds the normalized ids that are not in processed, in input
\* order, each id at most once (first occurrence kept).
C9_PendingDeduplicated ==
    (StatusServed /\ master.state # "unparseable") =>
        TheStatus.pending_video_ids =
            FirstOccurrences(SelectSeq(NormalizedIds,
                                       LAMBDA id : id \notin Range(master.processed)))

\* the operations that load the master index
IndexLoaders == {"status", "stats", "videos", "search", "random"}

\* C10: when the master index file exists but does not parse, every operation
\* that loads it ends in an explicit error outcome for its caller.
C10_UnparseableIndexIsAnError ==
    (/\ master.state = "unparseable"
     /\ request.op \in IndexLoaders
     /\ pc = "idle")
        => response.error # ""

(***************************************************************************)
(* formatTime and generateSRT                                              *)
(***************************************************************************)
AllDigits(s) == \A i \in 1..Len(s) : s[i] \in Range(DigitChars)

\* the four fields of a text HH:MM:SS,mmm and what stands between them
TimeFields(t) ==
    LET n == Len(t) IN
    [hours      |-> SubSeq(t, 1, n - 10),
     minutes    |-> SubSeq(t, n - 8, n - 7),
     seconds    |-> SubSeq(t, n - 5, n - 4),
     millis     |-> SubSeq(t, n - 2, n),
     separators |-> <<t[n - 9], t[n - 6], t[n - 3]>>]

\* the segments of the example of the specification, and its text
ExampleSegments ==
    <<[s |-> 0, e |-> 3000, t |-> "We're no strangers to love"],
      [s |-> 3000, e |-> 6000, t |-> "You know the rules and so do I"]>>

ExampleSrt ==
    <<"1","\n",
      "0","0",":","0","0",":","0","0",",","0","0","0"," ","-","-",">"," ","0","0",":","0","0",":","0","3",",","0","0","0","\n",
      "We're no strangers to love","\n",
      "\n",
      "2","\n",
      "0","0",":","0","0",":","0","3",",","0","0","0"," ","-","-",">"," ","0","0",":","0","0",":","0","6",",","0","0","0","\n",
      "You know the rules and so do I","\n">>

\* cue i of a text: the number, the time line, the text
Cue(i, segment) ==
    ToDigits(i) \o <<"\n">>
      \o formatTime(segment.s) \o <<" ","-","-",">"," ">> \o formatTime(segment.e) \o <<"\n">>
      \o <<segment.t>> \o <<"\n">>

\* the cues from the i-th on, a blank line after each but the last
RECURSIVE CuesFrom(_, _)
CuesFrom(segments, i) ==
    IF i > Len(segments) THEN <<>>
    ELSE Cue(i, segments[i]) \o (IF i < Len(segments) THEN <<"\n">> ELSE <<>>)
           \o CuesFrom(segments, i + 1)

\* C11: for a non-empty segment sequence generateSRT emits the cues in segment
\* order, numbered from 1, each cue the number, the line 'start --> end' and
\* the text, one blank line between two cues and none after the last; the
\* example of the specification yields exactly its text; the HTTP layer and
\* the static generator emit the same text for the same segments
C11_SrtCuesInOrder ==
    \A segments \in srtArgs.segments :
        segments # <<>> =>
            /\ \A text \in srtOut.http \cup srtOut.static : text = CuesFrom(segments, 1)
            /\ segments = ExampleSegments =>
                   \A text \in srtOut.http \cup srtOut.static : text = ExampleSrt
            /\ (srtOut.http # {} /\ srtOut.static # {}) => srtOut.http = srtOut.static

\* the example of the specification has gone through both generateSRT
C11_Witness ==
    /\ srtArgs.segments = {ExampleSegments}
    /\ srtOut.http = {ExampleSrt}
    /\ srtOut.static = {ExampleSrt}

\* C12: for every integer ms >= 0 formatTime renders hours, minutes, seconds
\* and milliseconds with minutes and seconds in 0..59, milliseconds in 0..999
\* and hours*3600000 + minutes*60000 + seconds*1000 + milliseconds = ms, as
\* HH:MM:SS,mmm padded with zeros to 2, 2, 2 and 3 digits: 12 characters
\* whenever hours < 100
C12_FormatTimeDecomposes ==
    \A ms \in srtArgs.ms : \A t \in srtOut.time \cup srtOut.generatorTime :
        /\ Len(t) >= 12
        /\ LET f       == TimeFields(t)
               hours   == ParseDigits(f.hours, 0)
               minutes == ParseDigits(f.minutes, 0)
               seconds == ParseDigits(f.seconds, 0)
               millis  == ParseDigits(f.millis, 0)
           IN  /\ f.separators = <<":", ":", ",">>
               /\ AllDigits(f.hours) /\ AllDigits(f.minutes)
               /\ AllDigits(f.seconds) /\ AllDigits(f.millis)
               /\ Len(f.hours) > 2 => f.hours[1] # "0"
               /\ hours < 100 => Len(t) = 12
               /\ minutes \in 0..59
               /\ seconds \in 0..59
               /\ millis \in 0..999
               /\ hours * 3600000 + minutes * 60000 + seconds * 1000 + millis = ms

\* a time of three hour digits where every field is at its largest
C12_Witness ==
    /\ srtArgs.ms = {100 * 3600000 + 59 * 60000 + 59 * 1000 + 999}
    /\ srtOut.time = {<<"1","0","0",":","5","9",":","5","9",",","9","9","9">>}
    /\ srtOut.generatorTime = srtOut.time

(***************************************************************************)
(* The static generators                                                   *)
(***************************************************************************)
\* the step of generate() named has run to its end
StepOver(step) == gen.step = step /\ gen.todo = <<>> /\ gen.pc # "killed"

\* the records a generator run reads
RecordsRead ==
    IF gen.program = "shards"
    THEN {v \in Range(ShardsVideos(master.shards)) : MasterLoads}
    ELSE {videoDir[n].data : n \in {m \in Range(VideoFiles) : videoDir[m].kind = "video"}}

\* the complete content of a file of api/, when it has one
Complete(path, kind) == {c.data : c \in {d \in apiFiles[path] : d.kind = kind}}

\* the tokens of a title: it is lower-cased, what is neither a letter, a
\* digit, an underscore nor white space is removed, and every longest run
\* without white space of at least three characters is a token
Tokens(title) ==
    LET keep == Range(Lower) \cup Range(DigitChars) \cup {"_"} \cup WhiteSpace
        s    == SelectSeq(toLowerCase(title), LAMBDA c : c \in keep)
        runs == {p \in (1..Len(s)) \X (1..Len(s)) :
                    /\ p[2] - p[1] + 1 >= 3
                    /\ \A k \in p[1]..p[2] : s[k] \notin WhiteSpace
                    /\ p[1] = 1 \/ s[p[1] - 1] \in WhiteSpace
                    /\ p[2] = Len(s) \/ s[p[2] + 1] \in WhiteSpace}
    IN  {SubSeq(s, p[1], p[2]) : p \in runs}

\* C13: after the search index is built, every key of the keyword map is a
\* title token of length >= 3 of a record, no id list of a keyword holds an
\* id twice, and for every record and every token of length >= 3 of its
\* lower-cased title without punctuation the id of the record is in the list
\* of that token
C13_KeywordMap ==
    StepOver("search") =>
        \A index \in Complete("search/index.json", "index") :
            /\ \A word \in DOMAIN index.keywords :
                   \E v \in RecordsRead : \E t \in v.title : word \in Tokens(t)
            /\ \A word \in DOMAIN index.keywords : NoDuplicates(index.keywords[word])
            /\ \A v \in RecordsRead : \A t \in v.title : \A word \in Tokens(t) :
                   /\ word \in DOMAIN index.keywords
                   /\ v.id \in Range(index.keywords[word])

\* the ids that have a full video file video/{id}.json in api/video
FullVideoIds ==
    {id \in {SubSeq(n, 1, IdLength) : n \in {m \in DOMAIN videoDir : Len(m) >= IdLength}} :
        isValidVideoId(id) /\ (id \o DotJson) \in DOMAIN videoDir}

\* the ids of the records a generator is to make its artifacts from
RecordIds == IF gen.program = "shards" THEN Range(Ids(StoreRecords)) ELSE FullVideoIds

\* C14: after generateSearchIndex the videos list holds exactly one entry for
\* every record; for the generator that reads api/video, one for every full
\* video file video/{id}.json of a valid id, ids with '-' or '_' included,
\* and none made from a metadata file or a caption file.  Stated for the
\* stores where every line of every shard parses
C14_OneEntryPerRecord ==
    (StepOver("search") /\ NoCorruptLine /\ (gen.program = "shards" => MasterLoads)) =>
        \A videos \in Complete("search/videos.json", "videos") :
            /\ \A id \in RecordIds : Cardinality({i \in 1..Len(videos) : videos[i].id = id}) = 1
            /\ \A i \in 1..Len(videos) : videos[i].id \in RecordIds

\* C15: after a generation run stats.total_videos is the number of records
\* (for the generator that counts api/video, of the full video files of all
\* valid ids) and the number of entries of the videos list of the same run.
\* Stated for the stores where every line of every shard parses
C15_StatsCountRecords ==
    (gen.pc = "done" /\ NoCorruptLine /\ (gen.program = "shards" => MasterLoads)) =>
        \A stats \in Complete("stats.json", "stats") :
            /\ stats.total_videos = Cardinality(RecordIds)
            /\ \A videos \in Complete("search/videos.json", "videos") :
                   Len(videos) = stats.total_videos

\* every id of processed is in the id list of exactly one shard, the file of
\* that shard holds a record with that id, and total is the length of
\* processed
IndexInvariant ==
    /\ MasterLoads
    /\ master.total = Len(master.processed)
    /\ \A i \in 1..Len(master.processed) :
           /\ Cardinality({k \in 1..Len(master.shards) :
                              master.processed[i] \in Range(master.shards[k].ids)}) = 1
           /\ \E k \in 1..Len(master.shards) :
                  /\ master.processed[i] \in Range(master.shards[k].ids)
                  /\ master.shards[k].path \in DOMAIN files
                  /\ master.processed[i] \in Range(Ids(LineRecords(files[master.shards[k].path].lines)))

\* the artifacts of a record are in api/video as the specification lays
\* them out
HasArtifacts(v) ==
    LET name(suffix) == v.id \o suffix
        holds(n, content) == n \in DOMAIN videoDir /\ videoDir[n] = content
    IN  /\ holds(name(DotJson), [kind |-> "video", data |-> v])
        /\ holds(name(<<"-","m","e","t","a","d","a","t","a">> \o DotJson),
                 [kind |-> "metadata",
                  data |-> [id |-> v.id, title |-> v.title, author |-> v.author,
                            duration |-> v.duration, view_count |-> v.view_count]])
        /\ \A c \in v.captions :
              /\ holds(name(<<"-">> \o LangChars(c.lang) \o DotJson),
                       [kind |-> "captions", data |-> [auto |-> c.auto, segments |-> c.segments]])
              /\ holds(name(<<"-">> \o LangChars(c.lang) \o <<".","s","r","t">>),
                       [kind |-> "srt", data |-> CuesFrom(c.segments, 1)])
              /\ holds(name(<<"-">> \o LangChars(c.lang) \o <<".","t","x","t">>),
                       [kind |-> "txt",
                        data |-> [i \in 1..(2 * Len(c.segments) - 1) |->
                                     IF i % 2 = 1 THEN c.segments[(i + 1) \div 2].t ELSE " "]])

\* C16: after generateVideoEndpoints on a store that satisfies the index
\* invariant, every id the index lists has its full artifact equal to the
\* record, its metadata artifact equal to the record without captions, and
\* for every language of its captions the .json, .srt and .txt artifacts of
\* that track.  Stated for the runs where every line of every shard parses
\* and no write to api/video fails
C16_EndpointsForEveryId ==
    (StepOver("video") /\ IndexInvariant /\ NoCorruptLine /\ unwritable.video = {}) =>
        \A v \in Range(StoreRecords) : v.id \in Range(master.processed) => HasArtifacts(v)

\* what a file holds, the fields named generated_at left out
WithoutGeneratedAt(contents) ==
    {IF c.kind \in {"stats", "index", "manifest"}
     THEN [kind |-> c.kind, data |-> [f \in DOMAIN c.data \ {"generated_at"} |-> c.data[f]]]
     ELSE c : c \in contents}

\* C17: two generate() runs in a row on an unchanged store and an unchanged
\* urls.txt leave every artifact with the same content but for the fields
\* named generated_at
C17_IdempotentButGeneratedAt ==
    (gen.pc = "done" /\ gen.run >= 2) =>
        /\ videoDir = prevApi.video
        /\ \A p \in DOMAIN apiFiles :
               WithoutGeneratedAt(apiFiles[p]) = WithoutGeneratedAt(prevApi.root[p])

\* the steps of generate() that failed: those whose catch logged, and the
\* manifest when its exception left generate()
FailedSteps ==
    {step \in {"stats", "queue", "video", "search"} : FailureMessage(step) \in gen.log}
        \cup {step \in {"manifest"} : gen.pc = "rejected"}

\* C18: in generate() the failure of one artifact type keeps no step of
\* another artifact type from running, and the failure is in a result the
\* caller gets, the run not being aborted
C18_FailuresIsolatedAndReported ==
    gen.pc \in {"done", "rejected"} =>
        /\ gen.ran = (IF gen.program = "shards"
                      THEN {"stats", "video", "search", "manifest"}
                      ELSE {"stats", "queue", "video", "search", "manifest"})
        /\ gen.result.state = "resolved"
        /\ FailedSteps \subseteq gen.result.reported

\* no write of an artifact of the record fails
Writable(v) ==
    \A i \in 1..Len(EndpointWrites(<<v>>)) : EndpointWrites(<<v>>)[i].file \notin unwritable.video

\* the record alone can be indexed: nothing in it makes the indexing throw
Indexable(v) ==
    ~IndexVideo([videos |-> <<>>, authors |-> <<>>, keywords |-> <<>>, threw |-> FALSE], v.id, v).threw

\* C19: in generateVideoEndpoints and generateSearchIndex a failure on one
\* record or one shard does not stop the work on the others: every other
\* record gets its artifacts and its entry in the search index
C19_RecordFailuresIsolated ==
    /\ (StepOver("video") /\ gen.program = "shards") =>
           \A v \in RecordsRead : Writable(v) => HasArtifacts(v)
    /\ StepOver("search") =>
           \A v \in RecordsRead : Indexable(v) =>
               \E index \in Complete("search/index.json", "index") :
                   \E i \in 1..Len(index.videos) : index.videos[i].id = v.id

\* C20: at every moment of a run, an interrupted run included, every
\* artifact file holds the complete content of the previous run or the
\* complete content of the new one, never an empty or partly written one
C20_ArtifactsNeverPartial ==
    /\ \A p \in DOMAIN apiFiles : Partial \notin apiFiles[p]
    /\ \A n \in DOMAIN videoDir : videoDir[n] # Partial

\* the lines of urls.txt that getStatus looks at, by position
QueuedLines == {i \in 1..Len(QueuedUrls) : TRUE}

\* C23: extractVideoId gives for every line either no id or the id segment
\* of a URL or the bare id; a line that gives no id is counted nowhere:
\* total_queued is the number of lines that give an id, every pending id
\* comes from a line, already_processed is the number of lines whose id is
\* in processed, and pending_processing + already_processed = total_queued
C23_NoIdCountedNowhere ==
    StatusServed =>
        LET withId   == {i \in QueuedLines : extractVideoId(QueuedUrls[i]) # {}}
            idOf(i)  == CHOOSE id \in extractVideoId(QueuedUrls[i]) : TRUE
            s        == TheStatus
        IN  /\ \A i \in QueuedLines : Cardinality(extractVideoId(QueuedUrls[i])) <= 1
            /\ \A i \in QueuedLines :
                   (/\ \A k \in 1..Len(UrlPrefixes) : ~includes(QueuedUrls[i], UrlPrefixes[k])
                    /\ ~isValidVideoId(QueuedUrls[i])) => i \notin withId
            /\ s.total_queued = Cardinality(withId)
            /\ s.pending_processing = Len(s.pending_video_ids)
            /\ \A k \in 1..Len(s.pending_video_ids) :
                   \E i \in withId : idOf(i) = s.pending_video_ids[k]
            /\ s.already_processed =
                   Cardinality({i \in withId : idOf(i) \in Range(ProcessedVideos)})
            /\ s.pending_processing + s.already_processed = s.total_queued

\* a status was computed from a urls.txt with a line that has no id, a line
\* whose id is processed and a line whose id is not
C23_Witness ==
    /\ StatusServed
    /\ \E i \in QueuedLines : extractVideoId(QueuedUrls[i]) = {}
    /\ TheStatus.already_processed >= 1
    /\ TheStatus.pending_processing >= 1

\* C24: every id the reconciler puts out is a well-formed id of 11
\* characters: those in pending_video_ids, and those counted in total_queued
C24_OnlyWellFormedIds ==
    StatusServed =>
        /\ \A k \in 1..Len(TheStatus.pending_video_ids) :
               isValidVideoId(TheStatus.pending_video_ids[k])
        /\ TheStatus.total_queued =
               Cardinality({i \in QueuedLines :
                               \E id \in extractVideoId(QueuedUrls[i]) : isValidVideoId(id)})

\* C26: the paths generateVideoEndpoints writes in one run are pairwise
\* distinct, so that no artifact is replaced by another one: when all
\* writes of a run are done, the file video/{id}-metadata.json of every
\* record holds the metadata of the record
C26_ArtifactPathsDistinct ==
    /\ (gen.step = "video" /\ gen.pc # "killed") =>
           \A i, j \in 1..Len(gen.todo) : gen.todo[i].file = gen.todo[j].file => i = j
    /\ (StepOver("video") /\ gen.program = "shards" /\ unwritable.video = {}) =>
           \A v \in RecordsRead :
               LET n == v.id \o <<"-","m","e","t","a","d","a","t","a">> \o DotJson
               IN  n \in DOMAIN videoDir /\ videoDir[n].kind = "metadata"

\* C27: after generateSearchIndex, search/videos.json is the videos field
\* of search/index.json and search/authors.json its authors field; every
\* id of an author list or a keyword list is the id of an entry of the
\* videos list; every record read that has an author is in the list of
\* that author; has_captions is true exactly when languages is not empty
C27_SearchArtifactsConsistent ==
    StepOver("search") =>
        \A index \in Complete("search/index.json", "index") :
            LET ids == {index.videos[i].id : i \in 1..Len(index.videos)} IN
            /\ \A videos \in Complete("search/videos.json", "videos") : videos = index.videos
            /\ \A authors \in Complete("search/authors.json", "authors") : authors = index.authors
            /\ \A a \in DOMAIN index.authors : Range(index.authors[a]) \subseteq ids
            /\ \A w \in DOMAIN index.keywords : Range(index.keywords[w]) \subseteq ids
            /\ \A v \in RecordsRead : \A a \in v.author :
                   a # <<>> => (a \in DOMAIN index.authors /\ v.id \in Range(index.authors[a]))
            /\ \A i \in 1..Len(index.videos) :
                   (index.videos[i].has_captions = {TRUE}) <=> (index.videos[i].languages # {})

\* the words of a query: its longest runs without white space, lower-cased
QueryWords(query) ==
    LET s    == toLowerCase(query)
        runs == {p \in (1..Len(s)) \X (1..Len(s)) :
                    /\ p[1] <= p[2]
                    /\ \A k \in p[1]..p[2] : s[k] \notin WhiteSpace
                    /\ p[1] = 1 \/ s[p[1] - 1] \in WhiteSpace
                    /\ p[2] = Len(s) \/ s[p[2] + 1] \in WhiteSpace}
    IN  {SubSeq(s, p[1], p[2]) : p \in runs}

\* C28: searchVideos(query) of the client ends without error on every
\* search index a generator run left, and gives the entries whose id is
\* listed under a word of the query in the keyword map or whose title or
\* author contains the lower-cased query, in the order of the videos list
C28_ClientSearchCompletes ==
    \A query \in client.query : \A index \in Complete("search/index.json", "index") :
        LET listed(v)   == \E w \in QueryWords(query) \cap DOMAIN index.keywords :
                               v.id \in Range(index.keywords[w])
            contains(f) == \E x \in f : includes(toLowerCase(x), toLowerCase(query))
        IN  /\ ~client.threw
            /\ client.videos =
                   SelectSeq(index.videos,
                             LAMBDA v : listed(v) \/ contains(v.title) \/ contains(v.author))

\* C25: every call of getRandomVideos ends: whenever the loop has been
\* entered, the reply is sent at some later time
C25_RandomTerminates == (pc = "loop") ~> (pc = "idle")

\* the shards of the index whose id list has the id
ShardsListing(id) == {j \in DOMAIN master.shards : id \in Range(master.shards[j].ids)}

============================================================================
